---- MODULE Spec2Model ----
(***************************************************************************)
(* Website-Monitoring: the recurring-job scheduler (ScheduledMonitor) and  *)
(* the alert evaluation it runs on each report of the probe aggregator     *)
(* (ComprehensiveMonitor.monitorWebsite).                                  *)
(*                                                                         *)
(* JavaScript runs each synchronous stretch of code to completion, so an   *)
(* action is one such stretch: a whole synchronous method, or the part of  *)
(* an async method between two awaits that wait on I/O.                    *)
(*                                                                         *)
(* Spec is the scheduler with its callers, cron tasks and executions;      *)
(* SpecMonitor follows one monitorWebsite call through its probes          *)
(* (FairSpecMonitor adds the event loop's fairness); SpecAlerts runs       *)
(* checkAlerts on every threshold setting and report.                      *)
(* The probes have a specification each, on the variable probe:            *)
(* SpecExpiry (days left and status), SpecDates (parseDateString),         *)
(* SpecDomain (monitorDomainExpiration), SpecPorts, SpecDns, SpecPing,     *)
(* SpecKeyword and SpecStatus (monitorWebsiteStatus).                      *)
(***************************************************************************)
EXTENDS Integers, Sequences, FiniteSets, TLC

\* ---------------------------------------------------------------- bounds
\* addJob and updateJobConfig calls that create a job object, plus
\* executions (runJob calls) started.
MaxCalls == 3

\* ------------------------------------------------------- optional values
\* An optional field: <<>> when undefined, <<v>> when set to v.
None == <<>>
Some(v) == <<v>>

\* JavaScript truthiness of an optional number: undefined and 0 are falsy.
Truthy(x) == x # None /\ x[1] # 0

\* ------------------------------------------------------------ the inputs
Ids == {"a", "b"}

GoodUrl == "https://example.com"
BadUrl == "not a url"

\* new URL(url): the URL parses (its hostname can be read) or TypeError.
ParsesAsURL(url) == url = GoodUrl

EveryMinute == "* * * * *"

\* cron.schedule validates the expression and throws on one it cannot use.
ValidCron(schedule) == schedule = EveryMinute

\* MonitoringConfig: emailEnabled is config.emailNotifications?.enabled,
\* alertThresholds is None when the config has none.
CfgAlert == [url |-> GoodUrl, schedule |-> EveryMinute, emailEnabled |-> TRUE,
             alertThresholds |-> Some([responseTime |-> Some(1000), sslExpiryDays |-> Some(30),
                                       domainExpiryDays |-> Some(30)])]
CfgBadUrl == [url |-> BadUrl, schedule |-> EveryMinute, emailEnabled |-> TRUE,
              alertThresholds |-> None]
CfgBadCron == [url |-> GoodUrl, schedule |-> "not a cron expression", emailEnabled |-> FALSE,
               alertThresholds |-> None]
Configs == {CfgAlert, CfgBadUrl, CfgBadCron}

\* MonitoringResult, the fields the scheduler reads.
RepHealthy == [status |-> "online", responseTime |-> 150,
               sslStatus |-> "valid", sslDays |-> Some(200),
               domainStatus |-> "valid", domainDays |-> Some(200)]
RepDown == [status |-> "offline", responseTime |-> 4000,
            sslStatus |-> "valid", sslDays |-> Some(200),
            domainStatus |-> "expiring_soon", domainDays |-> Some(10)]

\* ------------------------------------------------------------- the state
VARIABLES
    objs,      \* the MonitoringJob objects ever created, by allocation order
    jobs,      \* ScheduledMonitor.jobs: id -> index into objs, 0 when absent
    triggers,  \* the objects whose cron task is registered (never stopped)
    execs,     \* the runJob calls so far, finished ones included
    clock,     \* the instant the next new Date() returns
    errors,    \* the scheduler methods that have thrown to their caller
    run,       \* one monitorWebsite call: its target, position and report
    check,     \* one checkAlerts input with what evaluating it produced
    probe      \* one probe, or one helper of a probe, with its input and result

vars == <<objs, jobs, triggers, execs, clock, errors, run, check, probe>>

\* No monitorWebsite call and no checkAlerts call is being followed.
NoRun == [pc |-> "none"]

NoCheck == [evals |-> 0]

\* No single probe is being followed.
NoProbe == [pc |-> "none"]

Init ==
    /\ objs = <<>>
    /\ jobs = [i \in Ids |-> 0]
    /\ triggers = {}
    /\ execs = <<>>
    /\ clock = 1
    /\ errors = {}
    /\ run = NoRun
    /\ check = NoCheck
    /\ probe = NoProbe

Has(id) == jobs[id] # 0

\* getJob(id): the registry entry, None when absent.
getJob(id) == IF Has(id) THEN Some(objs[jobs[id]]) ELSE None

\* getJobStatus(id): the entry with isRunning = job?.isActive || false.
getJobStatus(id) ==
    [job |-> getJob(id), isRunning |-> IF Has(id) THEN objs[jobs[id]].isActive ELSE FALSE]

\* getAllJobs(): the entries of the registry, without their order.
getAllJobs == {objs[jobs[id]] : id \in {i \in Ids : Has(i)}}

\* ------------------------------------------------------ alert evaluation
\* config.alertThresholds?.<field>: None when there are no thresholds.
Threshold(config, field) ==
    IF config.alertThresholds = None THEN None ELSE config.alertThresholds[1][field]

Alert(rule, num, text) == [rule |-> rule, num |-> num, text |-> text]

IfAlert(cond, alert) == IF cond THEN <<alert>> ELSE <<>>

\* The alert list with the three status rules placed inside a test for
\* configured thresholds.
AlertList_statusNeedsThresholds(config, result) ==
    LET rt == Threshold(config, "responseTime")
        ssl == Threshold(config, "sslExpiryDays")
        dom == Threshold(config, "domainExpiryDays")
    IN  IfAlert(Truthy(rt) /\ result.responseTime > rt[1],
                Alert("responseTime", result.responseTime, "exceeds threshold"))
        \o IfAlert(Truthy(ssl) /\ Truthy(result.sslDays) /\ result.sslDays[1] <= ssl[1],
                   Alert("sslExpiry", IF result.sslDays = None THEN 0 ELSE result.sslDays[1],
                         "SSL certificate expires in"))
        \o IfAlert(Truthy(dom) /\ Truthy(result.domainDays) /\ result.domainDays[1] <= dom[1],
                   Alert("domainExpiry",
                         IF result.domainDays = None THEN 0 ELSE result.domainDays[1],
                         "Domain expires in"))
        \o IfAlert(config.alertThresholds # None /\ result.status # "online",
                   Alert("websiteStatus", 0, result.status))
        \o IfAlert(config.alertThresholds # None /\ result.sslStatus = "expired",
                   Alert("sslExpired", 0, "SSL certificate has expired"))
        \o IfAlert(config.alertThresholds # None /\ result.domainStatus = "expired",
                   Alert("domainExpired", 0, "Domain has expired"))

\* The alert list with the domain rule reading the SSL minimum instead of
\* the domain minimum.
AlertList_domainUsesSslMin(config, result) ==
    LET rt == Threshold(config, "responseTime")
        ssl == Threshold(config, "sslExpiryDays")
    IN  IfAlert(Truthy(rt) /\ result.responseTime > rt[1],
                Alert("responseTime", result.responseTime, "exceeds threshold"))
        \o IfAlert(Truthy(ssl) /\ Truthy(result.sslDays) /\ result.sslDays[1] <= ssl[1],
                   Alert("sslExpiry", IF result.sslDays = None THEN 0 ELSE result.sslDays[1],
                         "SSL certificate expires in"))
        \o IfAlert(Truthy(ssl) /\ Truthy(result.domainDays) /\ result.domainDays[1] <= ssl[1],
                   Alert("domainExpiry",
                         IF result.domainDays = None THEN 0 ELSE result.domainDays[1],
                         "Domain expires in"))
        \o IfAlert(result.status # "online", Alert("websiteStatus", 0, result.status))
        \o IfAlert(result.sslStatus = "expired", Alert("sslExpired", 0, "SSL certificate has expired"))
        \o IfAlert(result.domainStatus = "expired", Alert("domainExpired", 0, "Domain has expired"))

\* The alert list checkAlerts builds, in push order.
AlertList(config, result) ==
    LET rt == Threshold(config, "responseTime")
        ssl == Threshold(config, "sslExpiryDays")
        dom == Threshold(config, "domainExpiryDays")
    IN  IfAlert(Truthy(rt) /\ result.responseTime > rt[1],
                Alert("responseTime", result.responseTime, "exceeds threshold"))
        \o IfAlert(Truthy(ssl) /\ Truthy(result.sslDays) /\ result.sslDays[1] <= ssl[1],
                   Alert("sslExpiry", IF result.sslDays = None THEN 0 ELSE result.sslDays[1],
                         "SSL certificate expires in"))
        \o IfAlert(Truthy(dom) /\ Truthy(result.domainDays) /\ result.domainDays[1] <= dom[1],
                   Alert("domainExpiry",
                         IF result.domainDays = None THEN 0 ELSE result.domainDays[1],
                         "Domain expires in"))
        \o IfAlert(result.status # "online", Alert("websiteStatus", 0, result.status))
        \o IfAlert(result.sslStatus = "expired", Alert("sslExpired", 0, "SSL certificate has expired"))
        \o IfAlert(result.domainStatus = "expired", Alert("domainExpired", 0, "Domain has expired"))


\* ---------------------------------------------------- registry operations
\* The job object with its id taken from the config instead of the key.
NewJob_idFromConfig(id, config) ==
    [id |-> config.url, config |-> config, isActive |-> TRUE, lastRun |-> None,
     lastResult |-> None]

\* The job object addJob builds.
NewJob(id, config) ==
    [id |-> id, config |-> config, isActive |-> TRUE, lastRun |-> None, lastResult |-> None]

\* The registry as one value: the job objects, the map and the cron tasks.
Registry == [objs |-> objs, jobs |-> jobs, triggers |-> triggers]

\* addJob(id, config) on registry reg. The entry is stored before
\* cron.schedule runs, so a throwing schedule leaves the entry behind;
\* cron.schedule registers one more task, or it throws.
addJobOn(reg, id, config) ==
    LET n == Len(reg.objs) + 1
    IN  [objs |-> Append(reg.objs, NewJob(id, config)),
         jobs |-> [reg.jobs EXCEPT ![id] = n],
         triggers |-> IF ValidCron(config.schedule) THEN reg.triggers \cup {n}
                      ELSE reg.triggers,
         throws |-> ~ValidCron(config.schedule)]

\* removeJob(id) with the guard on the looked-up job left out: reading
\* isActive of undefined is a TypeError.
removeJobOn_noGuard(reg, id) ==
    IF reg.jobs[id] # 0
    THEN [objs |-> [reg.objs EXCEPT ![reg.jobs[id]].isActive = FALSE],
          jobs |-> [reg.jobs EXCEPT ![id] = 0],
          triggers |-> reg.triggers,
          throws |-> FALSE]
    ELSE [objs |-> reg.objs, jobs |-> reg.jobs, triggers |-> reg.triggers,
          throws |-> TRUE]

\* removeJob(id) with the delete left out: the job is deactivated and stays
\* in the map.
removeJobOn_keepsEntry(reg, id) ==
    IF reg.jobs[id] # 0
    THEN [objs |-> [reg.objs EXCEPT ![reg.jobs[id]].isActive = FALSE],
          jobs |-> reg.jobs,
          triggers |-> reg.triggers,
          throws |-> FALSE]
    ELSE [objs |-> reg.objs, jobs |-> reg.jobs, triggers |-> reg.triggers,
          throws |-> FALSE]

\* removeJob(id) on registry reg.
removeJobOn(reg, id) ==
    IF reg.jobs[id] # 0
    THEN [objs |-> [reg.objs EXCEPT ![reg.jobs[id]].isActive = FALSE],
          jobs |-> [reg.jobs EXCEPT ![id] = 0],
          triggers |-> reg.triggers,
          throws |-> FALSE]
    ELSE [objs |-> reg.objs, jobs |-> reg.jobs, triggers |-> reg.triggers,
          throws |-> FALSE]

\* updateJobConfig(id, config) that changes the config of the registered
\* job object in place instead of registering a new job.
updateJobConfigOn_inPlace(reg, id, config) ==
    IF reg.jobs[id] # 0
    THEN [objs |-> [reg.objs EXCEPT ![reg.jobs[id]].config = config],
          jobs |-> reg.jobs,
          triggers |-> reg.triggers,
          throws |-> ~ValidCron(config.schedule)]
    ELSE [objs |-> reg.objs, jobs |-> reg.jobs, triggers |-> reg.triggers,
          throws |-> FALSE]

\* updateJobConfig(id, config) on registry reg.
updateJobConfigOn(reg, id, config) ==
    IF reg.jobs[id] # 0
    THEN addJobOn([reg EXCEPT !.objs[reg.jobs[id]].isActive = FALSE], id, config)
    ELSE [objs |-> reg.objs, jobs |-> reg.jobs, triggers |-> reg.triggers,
          throws |-> FALSE]

\* The state after a registry method whose result is r.
Becomes(r, op) ==
    /\ objs' = r.objs
    /\ jobs' = r.jobs
    /\ triggers' = r.triggers
    /\ errors' = IF r.throws THEN errors \cup {op} ELSE errors
    /\ UNCHANGED <<execs, clock, run, check, probe>>

AddJob(id, config) == Becomes(addJobOn(Registry, id, config), "addJob")

RemoveJob(id) == Becomes(removeJobOn(Registry, id), "removeJob")

UpdateJobConfig(id, config) ==
    Becomes(updateJobConfigOn(Registry, id, config), "updateJobConfig")

\* The two reads look the registry up and assign nothing.
GetJob(id) == UNCHANGED vars

GetAllJobs == UNCHANGED vars

\* ------------------------------------------------------------ executions
InFlight(e) == execs[e].pc # "done"

JobIdOf(e) == objs[execs[e].obj].id

\* A runJob(job) call begins: monitorWebsite is called and awaited.
NewExec(o, origin) ==
    [obj |-> o, origin |-> origin, pc |-> "monitor", ret |-> "pending",
     result |-> None, log |-> <<>>,
     during |-> {e \in 1..Len(execs) : InFlight(e) /\ JobIdOf(e) = objs[o].id}]

\* The cron callback of the task registered for job object o fires.
CronFire(o) ==
    /\ o \in triggers
    /\ objs[o].isActive
    /\ execs' = Append(execs, NewExec(o, "cron"))
    /\ UNCHANGED <<objs, jobs, triggers, clock, errors, run, check, probe>>

\* runJobNow(id): "null" when it returns the not-found indication at once,
\* "runJob" when it goes on to run the job.
runJobNowBranch(id) ==
    IF ~Has(id) \/ ~objs[jobs[id]].isActive THEN "null" ELSE "runJob"

RunJobNow(id) ==
    IF runJobNowBranch(id) = "null"
    THEN UNCHANGED vars
    ELSE /\ execs' = Append(execs, NewExec(jobs[id], "now"))
         /\ UNCHANGED <<objs, jobs, triggers, clock, errors, run, check, probe>>

\* How the promise of sendAlertEmail settles when the dispatch went through
\* (delivered) or failed, with the catch around its body left out.
sendAlertEmail_noCatch(delivered) == IF delivered THEN "resolved" ELSE "rejected"

\* How the promise of sendAlertEmail settles: its whole body is inside a
\* try whose catch only logs.
sendAlertEmail(delivered) == "resolved"

\* runJob's own return once checkAlerts has settled: the report, or the
\* rethrown error.
Settle(outcome) ==
    IF outcome = "resolved" THEN [log |-> <<"return">>, ret |-> "result"]
    ELSE [log |-> <<"throw">>, ret |-> "throw"]

\* runJob from the resolution of monitorWebsite to its next wait, with
\* checkAlerts called but not awaited: runJob returns while the mail is
\* still being sent.
afterMonitor_noAwait(job, result, now, transportOk) ==
    LET updated == [job EXCEPT !.lastRun = Some(now), !.lastResult = Some(result)]
        begun == <<"monitor", "update">>
        failed == Settle(sendAlertEmail(FALSE))
    IN  IF ~job.config.emailEnabled
        THEN [job |-> updated, log |-> begun \o <<"return">>, pc |-> "done", ret |-> "result"]
        ELSE IF AlertList(job.config, result) = <<>>
        THEN [job |-> updated, log |-> begun \o <<"evaluate", "return">>,
              pc |-> "done", ret |-> "result"]
        ELSE IF ~transportOk
        THEN [job |-> updated,
              log |-> begun \o <<"evaluate", "dispatch", "transport-failed">> \o failed.log,
              pc |-> "done", ret |-> failed.ret]
        ELSE [job |-> updated, log |-> begun \o <<"evaluate", "dispatch", "return">>,
              pc |-> "send", ret |-> "result"]

\* runJob from the resolution of monitorWebsite to its next wait, with the
\* test for a non-empty alert list left out of checkAlerts: sendAlertEmail
\* is called for every evaluated list.
afterMonitor_sendsEmpty(job, result, now, transportOk) ==
    LET updated == [job EXCEPT !.lastRun = Some(now), !.lastResult = Some(result)]
        begun == <<"monitor", "update">>
        failed == Settle(sendAlertEmail(FALSE))
    IN  IF ~job.config.emailEnabled
        THEN [job |-> updated, log |-> begun \o <<"return">>, pc |-> "done", ret |-> "result"]
        ELSE IF ~transportOk
        THEN [job |-> updated,
              log |-> begun \o <<"evaluate", "dispatch", "transport-failed">> \o failed.log,
              pc |-> "done", ret |-> failed.ret]
        ELSE [job |-> updated, log |-> begun \o <<"evaluate", "dispatch">>,
              pc |-> "send", ret |-> "pending"]

\* runJob from the resolution of monitorWebsite to its next wait: lastRun
\* and lastResult are set, then checkAlerts runs up to the await on
\* sendMail, or to its return when there is nothing to send.
afterMonitor(job, result, now, transportOk) ==
    LET updated == [job EXCEPT !.lastRun = Some(now), !.lastResult = Some(result)]
        begun == <<"monitor", "update">>
        failed == Settle(sendAlertEmail(FALSE))
    IN  IF ~job.config.emailEnabled
        THEN [job |-> updated, log |-> begun \o <<"return">>, pc |-> "done", ret |-> "result"]
        ELSE IF AlertList(job.config, result) = <<>>
        THEN [job |-> updated, log |-> begun \o <<"evaluate", "return">>,
              pc |-> "done", ret |-> "result"]
        ELSE IF ~transportOk
        THEN [job |-> updated,
              log |-> begun \o <<"evaluate", "dispatch", "transport-failed">> \o failed.log,
              pc |-> "done", ret |-> failed.ret]
        ELSE [job |-> updated, log |-> begun \o <<"evaluate", "dispatch">>,
              pc |-> "send", ret |-> "pending"]

\* monitorWebsite resolves with a report for execution e.
MonitorDone(e, result, transportOk) ==
    /\ e \in 1..Len(execs)
    /\ execs[e].pc = "monitor"
    /\ ParsesAsURL(objs[execs[e].obj].config.url)
    /\ LET o == execs[e].obj
           r == afterMonitor(objs[o], result, clock, transportOk)
       IN  /\ objs' = [objs EXCEPT ![o] = r.job]
           /\ execs' = [execs EXCEPT ![e].pc = r.pc, ![e].ret = r.ret,
                                     ![e].result = Some(result), ![e].log = r.log]
    /\ clock' = clock + 1
    /\ UNCHANGED <<jobs, triggers, errors, run, check, probe>>

\* monitorWebsite rejects, with lastRun stamped on the failed run as well.
MonitorThrow_stampsLastRun(e) ==
    /\ e \in 1..Len(execs)
    /\ execs[e].pc = "monitor"
    /\ ~ParsesAsURL(objs[execs[e].obj].config.url)
    /\ objs' = [objs EXCEPT ![execs[e].obj].lastRun = Some(clock)]
    /\ execs' = [execs EXCEPT ![e].pc = "done", ![e].ret = "throw",
                              ![e].log = <<"monitor-failed", "throw">>]
    /\ clock' = clock + 1
    /\ UNCHANGED <<jobs, triggers, errors, run, check, probe>>

\* monitorWebsite rejects: monitorPorts parses the URL outside any try, so
\* a target that is no URL makes the whole run throw, and runJob rethrows.
MonitorThrow(e) ==
    /\ e \in 1..Len(execs)
    /\ execs[e].pc = "monitor"
    /\ ~ParsesAsURL(objs[execs[e].obj].config.url)
    /\ execs' = [execs EXCEPT ![e].pc = "done", ![e].ret = "throw",
                              ![e].log = <<"monitor-failed", "throw">>]
    /\ UNCHANGED <<objs, jobs, triggers, clock, errors, run, check, probe>>

\* sendMail settles for execution e; sendAlertEmail, checkAlerts and then
\* runJob (unless it has returned already) finish.
SendDone(e, delivered) ==
    /\ e \in 1..Len(execs)
    /\ execs[e].pc = "send"
    /\ LET ev == IF delivered THEN "delivered" ELSE "send-failed"
           s == Settle(sendAlertEmail(delivered))
       IN  execs' = [execs EXCEPT
                ![e].pc = "done",
                ![e].ret = IF @ = "pending" THEN s.ret ELSE @,
                ![e].log = IF execs[e].ret = "pending" THEN @ \o <<ev>> \o s.log
                           ELSE @ \o <<ev>>]
    /\ UNCHANGED <<objs, jobs, triggers, clock, errors, run, check, probe>>

\* ------------------------------------------------------- specification
\* Every interleaving of the callers of the scheduler, the cron tasks and
\* the I/O completions, until MaxCalls job objects have been created or
\* executions started.
MoreCalls == Len(objs) + Len(execs) < MaxCalls

Next ==
    \/ \E id \in Ids, config \in Configs : MoreCalls /\ AddJob(id, config)
    \/ \E id \in Ids : RemoveJob(id)
    \/ \E id \in Ids : GetJob(id)
    \/ GetAllJobs
    \/ \E id \in Ids, config \in Configs : MoreCalls /\ UpdateJobConfig(id, config)
    \/ \E o \in 1..Len(objs) : MoreCalls /\ CronFire(o)
    \/ \E id \in Ids : (runJobNowBranch(id) = "runJob" => MoreCalls) /\ RunJobNow(id)
    \/ \E e \in 1..Len(execs), result \in {RepHealthy, RepDown}, transportOk \in BOOLEAN :
          MonitorDone(e, result, transportOk)
    \/ \E e \in 1..Len(execs) : MonitorThrow(e)
    \/ \E e \in 1..Len(execs), delivered \in BOOLEAN : SendDone(e, delivered)

Spec == Init /\ [][Next]_vars

\* ======================================================= monitorWebsite
\* One monitorWebsite(url, keyword) call, followed from the creation of its
\* report to its return. The probes run one after the other, each awaited;
\* a step is the stretch of a probe up to its wait on a collaborator, or the
\* stretch from the collaborator's answer to the next wait.

\* The ports monitorPorts scans, in scan order.
Ports == <<21, 22, 23, 25, 53, 80, 110, 143, 443, 993, 995, 3306, 5432, 8080>>

\* The categories of MonitoringResult that are not optional.
Categories ==
    {"websiteMonitoring", "responseTime", "dnsMonitoring", "sslMonitoring",
     "domainExpiration", "portMonitoring", "pingMonitoring"}

\* The waits of a run, by the collaborator waited on: the GET of the
\* availability probe, the DNS lookups, the TLS handshake, the RDAP request,
\* the whois command, the TCP connects, the ping command, the GET of the
\* keyword probe and the read of its body.
Waits == {"status", "dns", "ssl", "rdap", "whois", "ports", "ping", "keyword", "body"}

\* What a collaborator can do: its answers, or never answering ("silent").
Peers(w) ==
    CASE w = "status" -> {"ok", "notok", "fail", "silent"}
      [] w = "dns" -> {"answers", "fails", "silent"}
      [] w = "ssl" -> {"valid", "expiring", "expired", "fail", "silent"}
      [] w = "rdap" -> {"expiry", "unparsable", "noexpiry", "fail", "silent"}
      [] w = "whois" -> {"expiry", "unparsable", "noexpiry", "fail", "silent"}
      [] w = "ports" -> {"web", "closed", "silent"}
      [] w = "ping" -> {"time", "notime", "fail", "silent"}
      [] w = "keyword" -> {"ok", "notok", "fail", "silent"}
      [] w = "body" -> {"found", "notfound", "fail", "silent"}

\* The categories the probe of wait w writes.
Cats(w) ==
    CASE w = "status" -> {"websiteMonitoring", "responseTime"}
      [] w = "dns" -> {"dnsMonitoring"}
      [] w = "ssl" -> {"sslMonitoring"}
      [] w \in {"rdap", "whois"} -> {"domainExpiration"}
      [] w = "ports" -> {"portMonitoring"}
      [] w = "ping" -> {"pingMonitoring"}
      [] w \in {"keyword", "body"} -> {"keywordMonitoring"}

\* The report monitorWebsite starts from.
InitialReport ==
    [websiteMonitoring |-> [status |-> "error"],
     responseTime |-> [value |-> 0, status |-> "critical"],
     dnsMonitoring |-> [status |-> "error"],
     sslMonitoring |-> [status |-> "error"],
     domainExpiration |-> [status |-> "error"],
     portMonitoring |-> <<>>,
     pingMonitoring |-> [status |-> "error"]]

\* result.<category> = entry, for every category of entries.
Write(report, entries) ==
    [c \in DOMAIN report \cup DOMAIN entries |->
        IF c \in DOMAIN entries THEN entries[c] ELSE report[c]]

\* The entry a probe writes for a category when it ends in error.
ErrorEntry(cat) ==
    IF cat = "responseTime" THEN [value |-> 0, status |-> "critical"]
    ELSE [status |-> "error"]

\* A probe's error path with the assignment of the error entry replaced by
\* the removal of the category.
Caught_dropsEntry(report, cats) == [c \in DOMAIN report \ cats |-> report[c]]

\* A probe's error path: its categories get their error entries.
Caught(report, cats) == Write(report, [c \in cats |-> ErrorEntry(c)])

\* The status both expiry probes derive from the days left.
\* The classification with the boundary of 30 days moved to valid.
ExpiryStatus_thirtyValid(days) ==
    IF days > 0 THEN (IF days >= 30 THEN "valid" ELSE "expiring_soon") ELSE "expired"

ExpiryStatus(days) ==
    IF days > 0 THEN (IF days > 30 THEN "valid" ELSE "expiring_soon") ELSE "expired"

ExpiryEntry(days) == [status |-> ExpiryStatus(days), days |-> days]

\* The answers that end the probe of wait w with an error entry: "nourl"
\* is the probe failing to derive the hostname before any wait.
ErrorOutcome(w, peer) ==
    \/ peer = "nourl"
    \/ w \in {"status", "ssl"} /\ peer \in {"fail", "silent"}
    \/ w = "rdap" /\ peer = "unparsable"
    \/ w = "whois" /\ peer \in {"unparsable", "noexpiry", "fail"}
    \/ w = "ping" /\ peer = "fail"
    \/ w = "keyword" /\ peer \in {"notok", "fail", "silent"}
    \/ w = "body" /\ peer = "fail"


\* What the probe of wait w writes when the answer is no error; nothing
\* when the probe goes on to a further wait.
Entries(w, peer) ==
    CASE w = "status" ->
           [websiteMonitoring |-> [status |-> IF peer = "ok" THEN "online" ELSE "offline"],
            responseTime |-> [value |-> 150, status |-> "good"]]
      [] w = "dns" ->
           [dnsMonitoring |->
               [status |-> "resolved",
                records |-> IF peer = "answers" THEN {"A", "MX", "TXT", "NS"} ELSE {}]]
      [] w = "ssl" -> [sslMonitoring |-> ExpiryEntry(CASE peer = "valid" -> 200
                                                       [] peer = "expiring" -> 10
                                                       [] peer = "expired" -> 0)]
      [] w \in {"rdap", "whois"} /\ peer = "expiry" -> [domainExpiration |-> ExpiryEntry(200)]
      [] w = "ports" ->
           [portMonitoring |->
               [p \in {Ports[i] : i \in 1..Len(Ports)} |->
                   CASE peer = "silent" -> "timeout"
                     [] peer = "web" /\ p \in {80, 443} -> "open"
                     [] OTHER -> "closed"]]
      [] w = "ping" -> [pingMonitoring |-> [status |-> IF peer = "time" THEN "success" ELSE "failed"]]
      [] w = "body" ->
           [keywordMonitoring |-> [status |-> IF peer = "found" THEN "found" ELSE "not_found"]]
      [] OTHER -> <<>>

\* The report after the probe of wait w got the answer peer.
Apply(report, w, peer) ==
    IF ErrorOutcome(w, peer) THEN Caught(report, Cats(w))
    ELSE Write(report, Entries(w, peer))

\* Where the run goes when wait w ended with the answer peer: whois only
\* when RDAP gave no expiry, the keyword probe only for a keyword, the read
\* of the body only for an ok response.
After(w, peer, keyword) ==
    CASE w = "status" -> "dns"
      [] w = "dns" -> "ssl"
      [] w = "ssl" -> "rdap"
      [] w = "rdap" -> IF peer \in {"noexpiry", "fail"} THEN "whois" ELSE "ports"
      [] w = "whois" -> "ports"
      [] w = "ports" -> "ping"
      [] w = "ping" -> IF keyword # None THEN "keyword" ELSE "returned"
      [] w = "keyword" -> IF peer = "ok" THEN "body" ELSE "returned"
      [] w = "body" -> "returned"

\* monitorWebsite(url, keyword) is called: the report is created and the
\* availability probe is next. got keeps the answer each wait ended with,
\* peer the answer being waited for ("-" when not waiting); cancelled is
\* the caller's side: whether it has given up on the run.
monitorWebsite(url, keyword) ==
    [url |-> url, keyword |-> keyword, pc |-> "status", peer |-> "-",
     report |-> InitialReport, got |-> [w \in Waits |-> "-"], cancelled |-> FALSE]

Running == run.pc \in Waits

\* The wait of run r has ended with the answer peer.
endProbe(r, peer) ==
    [r EXCEPT !.report = Apply(@, r.pc, peer),
              !.got[r.pc] = peer,
              !.peer = "-",
              !.pc = After(r.pc, peer, r.keyword)]

\* The probe of the current wait runs up to the wait. A target that does
\* not parse ends the probe at once, in its catch; monitorPorts parses the
\* target outside any try, so there the exception leaves the probe and
\* monitorWebsite rejects.
ProbeCall(peer) ==
    /\ Running
    /\ run.peer = "-"
    /\ peer \in Peers(run.pc)
    /\ run' = IF ParsesAsURL(run.url) THEN [run EXCEPT !.peer = peer]
              ELSE IF run.pc = "ports" THEN [run EXCEPT !.pc = "thrown", !.got[run.pc] = "nourl"]
              ELSE endProbe(run, "nourl")
    /\ UNCHANGED <<objs, jobs, triggers, execs, clock, errors, check, probe>>

\* The collaborator answers, or the timer of the wait ends it.
\* A silent collaborator ends only the waits that the code (or the resolver
\* it calls) bounds by itself: the 10 s abort of the two GETs, the resolver's
\* own retries, the 5 s socket timeout of the handshake and the 3 s socket
\* timeout of each connect. The RDAP request, the whois and ping commands
\* and the read of the body have no timer.
ProbeReturn ==
    /\ Running
    /\ run.peer # "-"
    /\ run.peer = "silent" => run.pc \in {"status", "dns", "ssl", "ports", "keyword"}
    /\ run' = endProbe(run, run.peer)
    /\ UNCHANGED <<objs, jobs, triggers, execs, clock, errors, check, probe>>

\* The caller of an ad-hoc run stops it: the page aborts its own request.
\* The callers of ad-hoc runs check first that the target parses.
\* monitorWebsite takes no signal and the handler that awaits it listens to
\* nothing of the request, so the run itself is left as it is.
stopMonitoring ==
    /\ Running
    /\ ParsesAsURL(run.url)
    /\ ~run.cancelled
    /\ run' = [run EXCEPT !.cancelled = TRUE]
    /\ UNCHANGED <<objs, jobs, triggers, execs, clock, errors, check, probe>>

InitMonitor ==
    /\ objs = <<>>
    /\ jobs = [i \in Ids |-> 0]
    /\ triggers = {}
    /\ execs = <<>>
    /\ clock = 1
    /\ errors = {}
    /\ check = NoCheck
    /\ probe = NoProbe
    /\ run \in {monitorWebsite(url, keyword) :
                    url \in {GoodUrl, BadUrl}, keyword \in {None, Some("welcome")}}

NextMonitor ==
    \/ \E peer \in UNION {Peers(w) : w \in Waits} : ProbeCall(peer)
    \/ ProbeReturn
    \/ stopMonitoring

SpecMonitor == InitMonitor /\ [][NextMonitor]_vars

\* The event loop runs every callback whose collaborator has answered or
\* whose timer has expired.
FairSpecMonitor == SpecMonitor /\ WF_vars(NextMonitor)

\* The statuses MonitoringResult declares for a category.
StatusesOf(cat) ==
    CASE cat = "websiteMonitoring" -> {"online", "offline", "error"}
      [] cat = "responseTime" -> {"good", "warning", "critical"}
      [] cat = "dnsMonitoring" -> {"resolved", "failed", "error"}
      [] cat = "sslMonitoring" -> {"valid", "invalid", "expired", "expiring_soon", "error"}
      [] cat = "domainExpiration" -> {"valid", "expired", "expiring_soon", "error"}
      [] cat = "portMonitoring" -> {"open", "closed", "timeout", "error"}
      [] cat = "pingMonitoring" -> {"success", "failed", "error"}
      [] cat = "keywordMonitoring" -> {"found", "not_found", "error"}

\* The run has ended: its promise resolved with the report, or rejected.
Settled == run.pc \in {"returned", "thrown"}

\* ========================================================== checkAlerts
\* checkAlerts(job, result) on its own, for every threshold setting and
\* every report the probes can produce in the fields it reads.

\* The times checkAlerts is run on one job and report.
MaxEvals == 2

AlertConfigs ==
    {[url |-> GoodUrl, schedule |-> EveryMinute, emailEnabled |-> enabled,
      alertThresholds |-> thresholds] :
        enabled \in BOOLEAN,
        thresholds \in
            {None} \cup
            {Some([responseTime |-> rt, sslExpiryDays |-> ssl, domainExpiryDays |-> dom]) :
                rt \in {None, Some(0), Some(1000)},
                ssl \in {None, Some(0), Some(30)},
                dom \in {None, Some(0), Some(30)}}}

\* What an expiry probe leaves: no days (an error entry), or the days left.
DaysLeft == {None, Some(-5), Some(0), Some(10), Some(30), Some(200)}

StatusOfDays(days) == IF days = None THEN "error" ELSE ExpiryStatus(days[1])

AlertResults ==
    {[status |-> a.status, responseTime |-> a.responseTime,
      sslStatus |-> StatusOfDays(ssl), sslDays |-> ssl,
      domainStatus |-> StatusOfDays(dom), domainDays |-> dom] :
        a \in {[status |-> "online", responseTime |-> v] : v \in {150, 1000, 4000}}
               \cup {[status |-> "offline", responseTime |-> v] : v \in {150, 4000}}
               \cup {[status |-> "error", responseTime |-> 0]},
        ssl \in DaysLeft, dom \in DaysLeft}

\* checkAlerts with the alert list kept from one call to the next instead
\* of created in each call.
checkAlertsOn_sharedList(c) ==
    IF ~c.config.emailEnabled THEN [c EXCEPT !.evals = @ + 1]
    ELSE LET alerts == (IF c.alerts = None THEN <<>> ELSE c.alerts[1])
                       \o AlertList(c.config, c.result)
         IN  [c EXCEPT !.alerts = Some(alerts),
                       !.sent = IF alerts # <<>> THEN @ + 1 ELSE @,
                       !.evals = @ + 1]

\* checkAlerts(job, result): nothing when notifications are not enabled;
\* else the list is built and, when it is not empty, sendAlertEmail is
\* called with it.
checkAlertsOn(c) ==
    IF ~c.config.emailEnabled THEN [c EXCEPT !.evals = @ + 1]
    ELSE LET alerts == AlertList(c.config, c.result)
         IN  [c EXCEPT !.alerts = Some(alerts),
                       !.sent = IF alerts # <<>> THEN @ + 1 ELSE @,
                       !.evals = @ + 1]

CheckAlerts ==
    /\ check' = checkAlertsOn(check)
    /\ UNCHANGED <<objs, jobs, triggers, execs, clock, errors, run, probe>>

\* A job's config and a report, before checkAlerts has run on them: alerts
\* is the list of the latest evaluation, sent counts the sendAlertEmail
\* calls.
InitAlerts ==
    /\ objs = <<>>
    /\ jobs = [i \in Ids |-> 0]
    /\ triggers = {}
    /\ execs = <<>>
    /\ clock = 1
    /\ errors = {}
    /\ run = NoRun
    /\ probe = NoProbe
    /\ check \in [config : AlertConfigs, result : AlertResults, alerts : {None},
                  sent : {0}, evals : {0}]

\* checkAlerts is evaluated again on the same input, up to MaxEvals times.
SpecAlerts == InitAlerts /\ [][check.evals < MaxEvals /\ CheckAlerts]_vars

\* The alert list has been built, and list is it.
Evaluated == check.alerts # None

Rules(list) == {list[i].rule : i \in 1..Len(list)}

\* The place of a rule in checkAlerts.
RuleOrder(rule) ==
    CASE rule = "responseTime" -> 1
      [] rule = "sslExpiry" -> 2
      [] rule = "domainExpiry" -> 3
      [] rule = "websiteStatus" -> 4
      [] rule = "sslExpired" -> 5
      [] rule = "domainExpired" -> 6

\* ------------------------------------------------- days left and status
\* The two expiry probes compute the days left from the time between now
\* and the expiry instant and classify them. Time is counted in half days
\* here, so that the rounding up of a partial day is part of the model.
MaxPast == 6
MaxLeft == 64

\* Math.ceil(ms / (1000 * 60 * 60 * 24)), with left in half days.
daysUntilExpiry(left) == -((-left) \div 2)

InitExpiry ==
    /\ objs = <<>>
    /\ jobs = [i \in Ids |-> 0]
    /\ triggers = {}
    /\ execs = <<>>
    /\ clock = 1
    /\ errors = {}
    /\ run = NoRun
    /\ check = NoCheck
    /\ probe \in [pc : {"expiry"}, kind : {"ssl", "domain"},
                  left : {None} \cup {Some(h) : h \in (0 - MaxPast)..MaxLeft},
                  entry : {None}]

\* monitorSSL or monitorDomainExpiration writes its entry once it has the
\* expiry instant; None for the instant is the path into the catch block.
WriteExpiry ==
    /\ probe.pc = "expiry"
    /\ probe' = [probe EXCEPT
                    !.pc = "written",
                    !.entry = Some(IF probe.left = None
                                   THEN [status |-> "error"]
                                   ELSE ExpiryEntry(daysUntilExpiry(probe.left[1])))]
    /\ UNCHANGED <<objs, jobs, triggers, execs, clock, errors, run, check>>

SpecExpiry == InitExpiry /\ [][WriteExpiry]_vars

\* ------------------------------------------------------ parseDateString
\* A date string is a sequence of tokens: numbers, words, separators and
\* the parts of an ECMAScript date-time string. An instant is a calendar
\* date with a shift in hours from that date's midnight UTC.
IsoDates == {"2025-07-20", "2026-01-01"}

DateOf(tok) ==
    CASE tok = "2025-07-20" -> <<2025, 7, 20>>
      [] tok = "2026-01-01" -> <<2026, 1, 1>>

NumOf(tok) ==
    CASE tok = "20" -> 20
      [] tok = "1" -> 1
      [] tok = "2025" -> 2025
      [] tok = "2026" -> 2026

\* months[word.slice(0, 3).toLowerCase()]; 0 for a word that is no month.
months(word) ==
    CASE word = "Jul" -> 7
      [] word = "January" -> 1
      [] OTHER -> 0

\* Midnight of a date on the clock of a host that is zone hours east of
\* UTC; zone 0 is midnight UTC.
Midnight(date, zone) == [date |-> date, shift |-> 0 - zone]

\* s.trim()
RECURSIVE trim(_)
trim(s) ==
    IF s # <<>> /\ Head(s) = " " THEN trim(Tail(s))
    ELSE IF s # <<>> /\ s[Len(s)] = " " THEN trim(SubSeq(s, 1, Len(s) - 1))
    ELSE s

\* s.replace(/\s+GMT$/i, 'Z'): a closing GMT with the white space before
\* it becomes the letter Z, appended to what is left.
replaceGMT(s) ==
    IF /\ Len(s) >= 2
       /\ s[Len(s)] \in {"GMT", "gmt"}
       /\ s[Len(s) - 1] = " "
    THEN Append(trim(SubSeq(s, 1, Len(s) - 1)), "Z")
    ELSE s

\* The date-time string format of ECMAScript, which every engine reads
\* the same way: a date alone is UTC, a date and time without offset is
\* local time, a closing Z is UTC.
IsoFormat(s, zone) ==
    LET n == Len(s)
        rest == IF n >= 4 /\ s[4] = ".000" THEN SubSeq(s, 5, n) ELSE SubSeq(s, 4, n)
    IN  CASE n = 1 /\ s[1] \in IsoDates -> Some(Midnight(DateOf(s[1]), 0))
          [] n >= 3 /\ s[1] \in IsoDates /\ s[2] = "T" /\ s[3] = "00:00:00" /\ rest = <<>> ->
                Some(Midnight(DateOf(s[1]), zone))
          [] n >= 3 /\ s[1] \in IsoDates /\ s[2] = "T" /\ s[3] = "00:00:00" /\ rest = <<"Z">> ->
                Some(Midnight(DateOf(s[1]), 0))
          [] OTHER -> None

\* What an engine with a fallback parser makes of a string outside the
\* format: day, month name and year are a local date; a date and a time
\* separated by a blank are local time, or UTC with a closing Z; a word
\* it does not know after a number makes the string invalid.
LegacyFormat(s, zone) ==
    LET n == Len(s)
    IN  CASE /\ n = 5
             /\ s[1] \in {"20", "1"} /\ s[2] \in {"-", " "}
             /\ months(s[3]) # 0
             /\ s[4] \in {"-", " "} /\ s[5] \in {"2025", "2026"} ->
                Some(Midnight(<<NumOf(s[5]), months(s[3]), NumOf(s[1])>>, zone))
          [] n = 3 /\ s[1] \in IsoDates /\ s[2] = " " /\ s[3] = "00:00:00" ->
                Some(Midnight(DateOf(s[1]), zone))
          [] n = 4 /\ s[1] \in IsoDates /\ s[2] = " " /\ s[3] = "00:00:00" /\ s[4] = "Z" ->
                Some(Midnight(DateOf(s[1]), 0))
          [] OTHER -> None

\* new Date(s), and Date.parse(s); None is the invalid date. How the
\* engine reads strings outside the ECMAScript format is left to the
\* implementation: "legacy" falls back to its own parser, "strict" reads
\* the format only. The zone is the hours the host's clock is east of UTC.
newDate(s, engine, zone) ==
    IF IsoFormat(s, zone) # None THEN IsoFormat(s, zone)
    ELSE IF engine = "legacy" THEN LegacyFormat(s, zone)
    ELSE None

\* The stage reading day, month name and year as midnight UTC, at the
\* first place where s.match(/(\d{1,2})[-\/ ]([A-Za-z]{3,9})[-\/ ](\d{4})/)
\* finds a day, a word and a year in a row.
patternDate(s) ==
    LET m == {i \in 1..(Len(s) - 4) :
                /\ s[i] \in {"20", "1"}
                /\ s[i + 1] \in {"-", "/", " "}
                /\ s[i + 2] \in {"Jul", "January", "Foo", "GMT", "gmt", "not", "defined"}
                /\ s[i + 3] \in {"-", "/", " "}
                /\ s[i + 4] \in {"2025", "2026"}}
        i == CHOOSE k \in m : \A j \in m : k <= j
    IN  IF m # {} /\ months(s[i + 2]) # 0
        THEN Some(Midnight(<<NumOf(s[i + 4]), months(s[i + 2]), NumOf(s[i])>>, 0))
        ELSE None

\* parseDateString: the stage that gave the instant and the instant, or
\* stage "none" and None.
parseDateString(str, engine, zone) ==
    LET s == replaceGMT(trim(str))
    IN  IF str = <<>> THEN [stage |-> "none", instant |-> None]
        ELSE IF newDate(s, engine, zone) # None
        THEN [stage |-> "native", instant |-> newDate(s, engine, zone)]
        ELSE IF patternDate(s) # None
        THEN [stage |-> "pattern", instant |-> patternDate(s)]
        ELSE IF newDate(s, engine, zone) # None
        THEN [stage |-> "last", instant |-> newDate(s, engine, zone)]
        ELSE [stage |-> "none", instant |-> None]

DayMonthYear == <<"20", "-", "Jul", "-", "2025">>
IsoWithGMT == <<"2025-07-20", "T", "00:00:00", ".000", "Z", " ", "GMT">>
Iso2025 == <<"2025-07-20", "T", "00:00:00", ".000", "Z">>
Iso2026 == <<"2026-01-01", "T", "00:00:00", "Z">>

InitDates ==
    /\ objs = <<>>
    /\ jobs = [i \in Ids |-> 0]
    /\ triggers = {}
    /\ execs = <<>>
    /\ clock = 1
    /\ errors = {}
    /\ run = NoRun
    /\ check = NoCheck
    /\ probe \in [pc : {"parse"},
                  s : {DayMonthYear, IsoWithGMT, Iso2025, Iso2026,
                       <<"2025-07-20", "T", "00:00:00">>,
                       <<"2025-07-20">>,
                       <<"2025-07-20", " ", "00:00:00", " ", "GMT">>,
                       <<"2025-07-20", " ", "00:00:00", " ", " ", "gmt">>,
                       <<" ", "20", "-", "Jul", "-", "2025", " ">>,
                       <<"1", " ", "January", " ", "2026">>,
                       <<"20", "/", "Jul", "/", "2025">>,
                       <<"20", "-", "Foo", "-", "2025">>,
                       <<"not", " ", "defined">>,
                       <<" ">>,
                       <<>>},
                  engine : {"legacy", "strict"}, zone : {0 - 5, 0, 2}, result : {None}]

\* One call of parseDateString.
ParseDate ==
    /\ probe.pc = "parse"
    /\ probe' = [probe EXCEPT
                    !.pc = "parsed",
                    !.result = Some(parseDateString(probe.s, probe.engine, probe.zone))]
    /\ UNCHANGED <<objs, jobs, triggers, execs, clock, errors, run, check>>

SpecDates == InitDates /\ [][ParseDate]_vars

\* ----------------------------------------------- monitorDomainExpiration
\* The probe asks the RDAP service first and the whois tool second, takes
\* a candidate string from the answer and hands it to parseDateString.
\* The clock of the model stands at 2025-07-10T00:00:00Z.

\* Math.ceil((expiryDate.getTime() - now.getTime()) / day), from the days
\* between now and the date and the instant's shift in hours.
domainDays(instant) ==
    LET ahead == CASE instant.date = <<2025, 7, 20>> -> 10
                   [] instant.date = <<2026, 1, 1>> -> 175
    IN  -((0 - (24 * ahead + instant.shift)) \div 24)

\* RDAP: the events of a payload, each with its action and its date.
Event(action, date) == [eventAction |-> action, eventDate |-> date]

\* /expir|expiration|expire/i.test(e.eventAction)
IsExpiryAction(action) == action \in {"expiration", "Expiry"}

\* The candidate the RDAP payload gives: the date of the first event
\* whose action speaks of expiry, if that event has one.
rdapCandidate(payload) ==
    IF ~payload.readable \/ payload.events = None THEN None
    ELSE LET events == payload.events[1]
             hits == {i \in 1..Len(events) : IsExpiryAction(events[i].eventAction)}
             i == CHOOSE k \in hits : \A j \in hits : k <= j
         IN  IF hits # {} /\ events[i].eventDate # None
             THEN Some(trim(events[i].eventDate[1]))
             ELSE None

\* Whois: the text is a sequence of lines; a line has the text before its
\* first colon as label ("" when it has no colon) and the rest as value.
Line(label, value) == [label |-> label, value |-> value]

patterns ==
    <<"Registry Expiry Date", "Registrar Registration Expiration Date",
      "Expiration Date", "Expiry Date", "paid-till", "paid_till", "Expires On",
      "expires", "Renewal Date", "domain_datebilled_until", "Registry Expiry">>

\* The patterns a label followed by its colon is matched by: those the
\* label ends with, whatever the case of the letters.
PatternsOf(label) ==
    CASE label = "Registry Expiry Date" -> {"Registry Expiry Date", "Expiry Date"}
      [] label = "Registrar Registration Expiration Date" ->
            {"Registrar Registration Expiration Date", "Expiration Date"}
      [] label = "Expires" -> {"expires"}
      [] OTHER -> {}

\* /expir|expire|expiry|expires/i.test(line)
MentionsExpiry(line) ==
    \/ line.label \in {"Registry Expiry Date", "Registrar Registration Expiration Date",
                       "Expires", "Expiry"}
    \/ \E i \in 1..Len(line.value) : line.value[i] \in {"expires", "expiration", "expired"}

\* whoisText.match(re): the value of the first line the pattern matches.
matchPattern(text, re) ==
    LET hits == {i \in 1..Len(text) : re \in PatternsOf(text[i].label)}
        i == CHOOSE k \in hits : \A j \in hits : k <= j
    IN  IF hits = {} THEN None ELSE Some(trim(text[i].value))

\* The loop over the patterns, from pattern number k on.
RECURSIVE fromPatterns(_, _)
fromPatterns(text, k) ==
    IF k > Len(patterns) THEN None
    ELSE IF matchPattern(text, patterns[k]) # None THEN matchPattern(text, patterns[k])
    ELSE fromPatterns(text, k + 1)

\* The looser search: the first line that mentions expiry, its part after
\* the colon if it has one.
looseSearch(text) ==
    LET hits == {i \in 1..Len(text) : MentionsExpiry(text[i])}
        i == CHOOSE k \in hits : \A j \in hits : k <= j
    IN  IF hits = {} \/ trim(text[i].value) = <<>> THEN None ELSE Some(trim(text[i].value))

\* The looser search consulted before the labelled patterns.
whoisCandidate_looseFirst(text) ==
    IF looseSearch(text) # None THEN looseSearch(text) ELSE fromPatterns(text, 1)

\* The candidate the whois text gives.
whoisCandidate(text) ==
    IF fromPatterns(text, 1) # None THEN fromPatterns(text, 1) ELSE looseSearch(text)

RegistryLine == Line("Registry Expiry Date", Iso2026)

MaxLines == 3

\* whoisText.slice(0, 800), counted in lines here.
SampleLength == 2

Sample_whole(text) == text

Sample(text) == SubSeq(text, 1, IF Len(text) < SampleLength THEN Len(text) ELSE SampleLength)

ErrorEntryWith(message, raw) == [status |-> "error", error |-> [message |-> message, raw |-> raw]]

\* Step 4 and the entry: the candidate goes to parseDateString.
resolved(p, expiryStr) ==
    LET expiryDate == parseDateString(expiryStr, p.engine, p.zone).instant
    IN  [p EXCEPT
            !.pc = "done",
            !.parsed = Some(expiryStr),
            !.entry =
                IF expiryDate = None
                THEN Some(ErrorEntryWith("Found expiry string but could not parse it", expiryStr))
                ELSE Some([status |-> ExpiryStatus(domainDays(expiryDate[1])),
                           expiryDate |-> expiryDate[1],
                           days |-> domainDays(expiryDate[1])])]

\* The end of the RDAP stage with the whois tool run in every case.
afterRdap_alwaysWhois(p, expiryStr) ==
    [p EXCEPT !.pc = "whois", !.whoisCalls = @ + 1]

\* The end of the RDAP stage: without a candidate the whois tool is run.
afterRdap(p, expiryStr) ==
    IF expiryStr = None
    THEN [p EXCEPT !.pc = "whois", !.whoisCalls = @ + 1]
    ELSE resolved(p, expiryStr[1])

InitDomain ==
    /\ objs = <<>>
    /\ jobs = [i \in Ids |-> 0]
    /\ triggers = {}
    /\ execs = <<>>
    /\ clock = 1
    /\ errors = {}
    /\ run = NoRun
    /\ check = NoCheck
    /\ probe \in [pc : {"start"}, url : {GoodUrl, BadUrl},
                  engine : {"legacy", "strict"}, zone : {0 - 5, 0, 2},
                  fetch : {"pending"}, payload : {None}, whoisCalls : {0},
                  whoisText : {None}, parsed : {None}, entry : {None}]

\* The probe up to its first wait: the hostname, then the RDAP request.
StartDomain ==
    /\ probe.pc = "start"
    /\ probe' = IF ParsesAsURL(probe.url)
                THEN [probe EXCEPT !.pc = "rdap"]
                ELSE [probe EXCEPT
                        !.pc = "done",
                        !.entry = Some(ErrorEntryWith("Invalid URL", <<>>))]
    /\ UNCHANGED <<objs, jobs, triggers, execs, clock, errors, run, check>>

\* The RDAP request ends: rejected, answered without success, or answered.
RdapFetch ==
    /\ probe.pc = "rdap"
    /\ \E outcome \in {"reject", "notok", "ok"} :
          probe' = IF outcome = "ok"
                   THEN [probe EXCEPT !.pc = "json", !.fetch = outcome]
                   ELSE afterRdap([probe EXCEPT !.fetch = outcome], None)
    /\ UNCHANGED <<objs, jobs, triggers, execs, clock, errors, run, check>>

\* The body of the RDAP answer has been read: the payload is unreadable
\* (json() failed), or has no events array, or has a list of events.
RdapJson ==
    /\ probe.pc = "json"
    /\ \E payload \in
          {[readable |-> FALSE, events |-> None],
          [readable |-> TRUE, events |-> None],
          [readable |-> TRUE, events |-> Some(<<>>)],
          [readable |-> TRUE, events |-> Some(<<Event("registration", Some(Iso2025))>>)],
          [readable |-> TRUE,
          events |-> Some(<<Event("registration", Some(Iso2025)), Event("expiration", Some(Iso2026))>>)],
          [readable |-> TRUE,
          events |-> Some(<<Event("Expiry", None), Event("expiration", Some(Iso2026))>>)],
          [readable |-> TRUE, events |-> Some(<<Event("expiration", Some(<<"not", " ", "defined">>))>>)],
          [readable |-> TRUE, events |-> Some(<<Event("expiration", Some(DayMonthYear))>>)]} :
          probe' = afterRdap([probe EXCEPT !.payload = Some(payload)], rdapCandidate(payload))
    /\ UNCHANGED <<objs, jobs, triggers, execs, clock, errors, run, check>>

\* The whois tool ends with its output: a candidate from the text goes
\* to step 4, no candidate ends in the error with the start of the text.
WhoisOutput ==
    /\ probe.pc = "whois"
    /\ \E text \in
          UNION {[1..n -> {RegistryLine,
                           Line("Registry Expiry Date", <<"2025-07-20">>),
                           Line("Registrar Registration Expiration Date", Iso2025),
                           Line("Expiry", DayMonthYear),
                           Line("", <<"domain", " ", "expires", " ", "soon">>),
                           Line("Domain Name", <<"example.com">>)}] : n \in 0..MaxLines} :
          probe' =
              IF whoisCandidate(text) = None
              THEN [probe EXCEPT
                      !.pc = "done",
                      !.whoisText = Some(text),
                      !.entry = Some(ErrorEntryWith(
                                        "Could not find expiry date in RDAP or WHOIS output",
                                        Sample(text)))]
              ELSE resolved([probe EXCEPT !.whoisText = Some(text)], whoisCandidate(text)[1])
    /\ UNCHANGED <<objs, jobs, triggers, execs, clock, errors, run, check>>

\* The whois tool cannot be run or ends with a failure: the outer catch.
WhoisFailure ==
    /\ probe.pc = "whois"
    /\ probe' = [probe EXCEPT
                    !.pc = "done",
                    !.entry = Some(ErrorEntryWith("Command failed", <<>>))]
    /\ UNCHANGED <<objs, jobs, triggers, execs, clock, errors, run, check>>

SpecDomain ==
    InitDomain /\ [][StartDomain \/ RdapFetch \/ RdapJson \/ WhoisOutput \/ WhoisFailure]_vars

\* ---------------------------------------------------------- monitorPorts
\* One connection per port of the list, one after the other. The peer's
\* answer to a connection is its own: accepted after some milliseconds,
\* refused, or nothing until the socket's timeout.
MaxAnswering == 2

\* The entry the handler of the socket's event writes.
portEntry_silentClosed(answer) ==
    CASE answer = "refuse" -> [status |-> "closed"]
      [] answer = "silent" -> [status |-> "closed"]
      [] OTHER -> [status |-> "open", responseTime |-> answer[1]]

portEntry(answer) ==
    CASE answer = "refuse" -> [status |-> "closed"]
      [] answer = "silent" -> [status |-> "timeout"]
      [] OTHER -> [status |-> "open", responseTime |-> answer[1]]

\* object[key] = value
Put(object, key, value) ==
    [k \in DOMAIN object \cup {key} |-> IF k = key THEN value ELSE object[k]]

InitPorts ==
    /\ objs = <<>>
    /\ jobs = [i \in Ids |-> 0]
    /\ triggers = {}
    /\ execs = <<>>
    /\ clock = 1
    /\ errors = {}
    /\ run = NoRun
    /\ check = NoCheck
    /\ probe \in [pc : {"start"}, url : {GoodUrl, BadUrl}, next : {1},
                  answers : {<<>>}, portMonitoring : {<<>>}]

\* The hostname is taken from the URL outside any try: an unparseable URL
\* makes the probe throw before the first connection.
StartPorts ==
    /\ probe.pc = "start"
    /\ probe' = [probe EXCEPT !.pc = IF ParsesAsURL(probe.url) THEN "scan" ELSE "thrown"]
    /\ UNCHANGED <<objs, jobs, triggers, execs, clock, errors, run, check>>

\* The connection to the next port ends with the peer's answer, and the
\* loop goes on to the port after it.
scanned(p, answer) ==
    LET port == Ports[p.next]
    IN  [p EXCEPT
            !.pc = IF p.next = Len(Ports) THEN "done" ELSE "scan",
            !.next = @ + 1,
            !.answers = Put(@, port, answer),
            !.portMonitoring = Put(@, port, portEntry(answer))]

\* 'connect'; the ports so far that did not refuse are bounded.
PortConnect ==
    /\ probe.pc = "scan"
    /\ Cardinality({q \in DOMAIN probe.answers : probe.answers[q] # "refuse"}) < MaxAnswering
    /\ \E ms \in {12, 250} : probe' = scanned(probe, Some(ms))
    /\ UNCHANGED <<objs, jobs, triggers, execs, clock, errors, run, check>>

\* 'error'
PortError ==
    /\ probe.pc = "scan"
    /\ probe' = scanned(probe, "refuse")
    /\ UNCHANGED <<objs, jobs, triggers, execs, clock, errors, run, check>>

\* 'timeout'
PortTimeout ==
    /\ probe.pc = "scan"
    /\ Cardinality({q \in DOMAIN probe.answers : probe.answers[q] # "refuse"}) < MaxAnswering
    /\ probe' = scanned(probe, "silent")
    /\ UNCHANGED <<objs, jobs, triggers, execs, clock, errors, run, check>>

SpecPorts == InitPorts /\ [][StartPorts \/ PortConnect \/ PortError \/ PortTimeout]_vars

\* ------------------------------------------------------------ monitorDNS
\* Four lookups are started together and waited for together; each has
\* its own catch that turns a failure into the empty list.
RecordTypes == {"A", "MX", "TXT", "NS"}

\* lookup.catch(() => [])
caught(lookup) == IF lookup.ok THEN lookup.records ELSE <<>>

\* mxRecords.map(mx => mx.exchange)
exchanges(mxRecords) == [i \in 1..Len(mxRecords) |-> mxRecords[i].exchange]

\* txtRecords.flat()
RECURSIVE flat(_)
flat(txtRecords) == IF txtRecords = <<>> THEN <<>> ELSE Head(txtRecords) \o flat(Tail(txtRecords))

\* The entry with a failed lookup failing the whole probe.
dnsEntry_failFast(got) ==
    IF \E type \in RecordTypes : ~got[type].ok
    THEN [status |-> "error"]
    ELSE [status |-> "resolved",
          records |-> [A |-> got["A"].records, MX |-> exchanges(got["MX"].records),
                       TXT |-> flat(got["TXT"].records), NS |-> got["NS"].records]]

\* The entry written once the four lookups have settled.
dnsEntry(got) ==
    [status |-> "resolved",
     records |-> [A |-> caught(got["A"]),
                  MX |-> exchanges(caught(got["MX"])),
                  TXT |-> flat(caught(got["TXT"])),
                  NS |-> caught(got["NS"])]]

InitDns ==
    /\ objs = <<>>
    /\ jobs = [i \in Ids |-> 0]
    /\ triggers = {}
    /\ execs = <<>>
    /\ clock = 1
    /\ errors = {}
    /\ run = NoRun
    /\ check = NoCheck
    /\ probe \in [pc : {"start"}, url : {GoodUrl, BadUrl}, got : {<<>>}, dnsMonitoring : {None}]

\* The hostname, then the four lookups are started; an unparseable URL
\* goes to the catch block.
StartDns ==
    /\ probe.pc = "start"
    /\ probe' = IF ParsesAsURL(probe.url)
                THEN [probe EXCEPT !.pc = "lookups"]
                ELSE [probe EXCEPT !.pc = "done", !.dnsMonitoring = Some([status |-> "error"])]
    /\ UNCHANGED <<objs, jobs, triggers, execs, clock, errors, run, check>>

\* One of the pending lookups is answered.
LookupAnswer ==
    /\ probe.pc = "lookups"
    /\ \E type \in RecordTypes \ DOMAIN probe.got :
          \E records \in
                CASE type = "A" -> {<<"93.184.216.34">>, <<"93.184.216.34", "93.184.216.35">>}
                  [] type = "MX" -> {<<[exchange |-> "mail.example.com", priority |-> 10]>>,
                                     <<[exchange |-> "mx1.example.com", priority |-> 10],
                                       [exchange |-> "mx2.example.com", priority |-> 20]>>}
                  [] type = "TXT" -> {<<<<"v=spf1", "-all">>, <<"verification=abc">>>>}
                  [] type = "NS" -> {<<"a.iana-servers.net", "b.iana-servers.net">>} :
              probe' = [probe EXCEPT !.got = Put(@, type, [ok |-> TRUE, records |-> records])]
    /\ UNCHANGED <<objs, jobs, triggers, execs, clock, errors, run, check>>

\* One of the pending lookups fails.
LookupFailure ==
    /\ probe.pc = "lookups"
    /\ \E type \in RecordTypes \ DOMAIN probe.got :
          probe' = [probe EXCEPT !.got = Put(@, type, [ok |-> FALSE, records |-> <<>>])]
    /\ UNCHANGED <<objs, jobs, triggers, execs, clock, errors, run, check>>

\* All four have settled: the probe goes on and writes its entry.
DnsResolved ==
    /\ probe.pc = "lookups"
    /\ DOMAIN probe.got = RecordTypes
    /\ probe' = [probe EXCEPT !.pc = "done", !.dnsMonitoring = Some(dnsEntry(probe.got))]
    /\ UNCHANGED <<objs, jobs, triggers, execs, clock, errors, run, check>>

SpecDns == InitDns /\ [][StartDns \/ LookupAnswer \/ LookupFailure \/ DnsResolved]_vars

\* ----------------------------------------------------------- monitorPing
\* The probe runs the system's ping once and looks for "time=" followed
\* by digits, a point and digits in its standard output. Round trips are
\* counted in microseconds; a printed time is its whole part and the
\* digits after the point (none when it is printed without a point).
Printed(whole, digits, frac) == [whole |-> whole, digits |-> digits, frac |-> frac]

\* The text the tool prints after "time=" for a round trip: the ping of
\* iputils prints three significant digits, the ping of BSD and that of
\* BusyBox always three digits after the point.
printTime(tool, us) ==
    IF tool = "iputils"
    THEN CASE us >= 100000 - 50 -> Printed((us + 500) \div 1000, 0, 0)
           [] us < 100000 - 50 /\ us >= 10000 - 5 ->
                 Printed((us + 50) \div 1000, 1, ((us + 50) % 1000) \div 100)
           [] us < 10000 - 5 /\ us >= 1000 ->
                 Printed((us + 5) \div 1000, 2, ((us + 5) % 1000) \div 10)
           [] OTHER -> Printed(us \div 1000, 3, us % 1000)
    ELSE Printed(us \div 1000, 3, us % 1000)

\* parseFloat(match[1]), in microseconds.
parseFloat(time) ==
    time.whole * 1000
        + time.frac * (CASE time.digits = 1 -> 100 [] time.digits = 2 -> 10 [] OTHER -> 1)

\* The entry for an output with a time in it: stdout.match(/time=(\d+\.\d+)/)
\* needs digits after a point.
pingEntry(time) ==
    IF time.digits >= 1
    THEN [status |-> "success", responseTime |-> parseFloat(time)]
    ELSE [status |-> "failed"]

InitPing ==
    /\ objs = <<>>
    /\ jobs = [i \in Ids |-> 0]
    /\ triggers = {}
    /\ execs = <<>>
    /\ clock = 1
    /\ errors = {}
    /\ run = NoRun
    /\ check = NoCheck
    /\ probe \in [pc : {"start"}, url : {GoodUrl, BadUrl}, tool : {"iputils", "bsd", "busybox"},
                  exit : {"pending"}, rtt : {0}, time : {Printed(0, 0, 0)},
                  pingMonitoring : {None}]

\* The hostname, then the tool is started; an unparseable URL goes to the
\* catch block.
StartPing ==
    /\ probe.pc = "start"
    /\ probe' = IF ParsesAsURL(probe.url)
                THEN [probe EXCEPT !.pc = "ping"]
                ELSE [probe EXCEPT !.pc = "done", !.pingMonitoring = Some([status |-> "error"])]
    /\ UNCHANGED <<objs, jobs, triggers, execs, clock, errors, run, check>>

\* The host answered: the tool prints the round trip and ends with 0.
PingReply ==
    /\ probe.pc = "ping"
    /\ \E us \in {m * s : m \in {100, 105, 123, 250, 500, 999}, s \in {1, 10, 100, 1000, 10000}} :
          probe' = [probe EXCEPT
                      !.pc = "done",
                      !.exit = "replied",
                      !.rtt = us,
                      !.time = printTime(probe.tool, us),
                      !.pingMonitoring = Some(pingEntry(printTime(probe.tool, us)))]
    /\ UNCHANGED <<objs, jobs, triggers, execs, clock, errors, run, check>>

\* The tool ends with a status other than 0 (no answer from the host,
\* unknown host) or cannot be started: exec rejects, the catch block.
PingFailure ==
    /\ probe.pc = "ping"
    /\ \E exit \in {"noreply", "unknownhost", "notstarted"} :
          probe' = [probe EXCEPT
                      !.pc = "done",
                      !.exit = exit,
                      !.pingMonitoring = Some([status |-> "error"])]
    /\ UNCHANGED <<objs, jobs, triggers, execs, clock, errors, run, check>>

SpecPing == InitPing /\ [][StartPing \/ PingReply \/ PingFailure]_vars

\* -------------------------------------------------------- monitorKeyword
\* The keyword and the body are strings of characters. The keyword is
\* handed to new RegExp(keyword, 'gi'), so a point in it stands for any
\* character and a plus sign repeats the character before it.
MaxBody == 3
MaxKeyword == 2

BodyChars == {"a", "A", "b", "."}

Strings(chars, n) == UNION {[1..k -> chars] : k \in 0..n}

\* Flag i: letters are compared without regard to case.
Lower(c) == IF c = "A" THEN "a" ELSE c

\* One pattern character against one character of the content.
charMatch(c, x) == c = "." \/ Lower(c) = Lower(x)

\* The length of the run of characters from position p that c matches.
RECURSIVE runLength(_, _, _)
runLength(c, content, p) ==
    IF p <= Len(content) /\ charMatch(c, content[p]) THEN 1 + runLength(c, content, p + 1) ELSE 0

\* The position after the match of the pattern from its k-th character
\* on, tried at position p of the content; 0 when there is none. A
\* repeated character takes the longest run first and gives back.
RECURSIVE matchEnd(_, _, _, _)
RECURSIVE matchRuns(_, _, _, _, _)
matchEnd(re, k, content, p) ==
    IF k > Len(re) THEN p
    ELSE IF k < Len(re) /\ re[k + 1] = "+"
    THEN matchRuns(re, k, content, p, runLength(re[k], content, p))
    ELSE IF p <= Len(content) /\ charMatch(re[k], content[p])
    THEN matchEnd(re, k + 1, content, p + 1)
    ELSE 0

matchRuns(re, k, content, p, n) ==
    IF n = 0 THEN 0
    ELSE IF matchEnd(re, k + 2, content, p + n) # 0
    THEN matchEnd(re, k + 2, content, p + n)
    ELSE matchRuns(re, k, content, p, n - 1)

\* (content.match(re) || []).length with flag g: the matches found from
\* left to right, each search starting where the last match ended.
RECURSIVE matches(_, _, _)
matches(re, content, p) ==
    IF p > Len(content) THEN 0
    ELSE IF matchEnd(re, 1, content, p) # 0
    THEN 1 + matches(re, content, matchEnd(re, 1, content, p))
    ELSE matches(re, content, p + 1)

\* The entry for a body that was read; new RegExp(keyword) throws for a
\* plus sign with nothing to repeat, which ends in the catch block.
keywordEntry(keyword, content) ==
    IF \E i \in 1..Len(keyword) : keyword[i] = "+" /\ (i = 1 \/ keyword[i - 1] = "+")
    THEN [status |-> "error"]
    ELSE [status |-> IF matches(keyword, content, 1) > 0 THEN "found" ELSE "not_found",
          keyword |-> keyword,
          occurrences |-> matches(keyword, content, 1)]

InitKeyword ==
    /\ objs = <<>>
    /\ jobs = [i \in Ids |-> 0]
    /\ triggers = {}
    /\ execs = <<>>
    /\ clock = 1
    /\ errors = {}
    /\ run = NoRun
    /\ check = NoCheck
    /\ probe \in [pc : {"start"},
                  keyword : {None} \cup {Some(k) : k \in Strings(BodyChars \cup {"+"}, MaxKeyword)},
                  content : {None}, keywordMonitoring : {None}]

\* monitorWebsite: the keyword probe is called only for a keyword that
\* is neither undefined nor the empty string; it starts with the request.
StartKeyword ==
    /\ probe.pc = "start"
    /\ probe' = [probe EXCEPT
                    !.pc = IF probe.keyword # None /\ probe.keyword[1] # <<>>
                           THEN "fetch" ELSE "done"]
    /\ UNCHANGED <<objs, jobs, triggers, execs, clock, errors, run, check>>

\* The request ends: answered with success, answered without, or failed
\* (also by the abort after ten seconds).
KeywordFetch ==
    /\ probe.pc = "fetch"
    /\ \E outcome \in {"ok", "notok", "reject"} :
          probe' = IF outcome = "ok"
                   THEN [probe EXCEPT !.pc = "text"]
                   ELSE [probe EXCEPT
                            !.pc = "done",
                            !.keywordMonitoring = Some([status |-> "error"])]
    /\ UNCHANGED <<objs, jobs, triggers, execs, clock, errors, run, check>>

\* The body has been read.
KeywordText ==
    /\ probe.pc = "text"
    /\ \E content \in Strings(BodyChars, MaxBody) :
          probe' = [probe EXCEPT
                      !.pc = "done",
                      !.content = Some(content),
                      !.keywordMonitoring = Some(keywordEntry(probe.keyword[1], content))]
    /\ UNCHANGED <<objs, jobs, triggers, execs, clock, errors, run, check>>

\* Reading the body fails.
KeywordTextFailure ==
    /\ probe.pc = "text"
    /\ probe' = [probe EXCEPT !.pc = "done", !.keywordMonitoring = Some([status |-> "error"])]
    /\ UNCHANGED <<objs, jobs, triggers, execs, clock, errors, run, check>>

SpecKeyword ==
    InitKeyword /\ [][StartKeyword \/ KeywordFetch \/ KeywordText \/ KeywordTextFailure]_vars

\* ================================================== monitorWebsiteStatus
\* The availability probe: one GET with fetch, which follows redirects by
\* itself (the request sets no redirect mode), and the two entries written
\* from the response or from the failure. Times are in tenths of a
\* millisecond: performance.now() has a fractional part.

\* The redirects fetch follows before it gives up with a network error.
MaxRedirects == 20

\* The entries written from a response: response.ok is true for the
\* status codes 200 to 299; the value is Math.round of the unrounded span,
\* the bucket is chosen on the unrounded span.
statusEntries(status, responseTime) ==
    [websiteMonitoring |->
        [status |-> IF status >= 200 /\ status <= 299 THEN "online" ELSE "offline",
         statusCode |-> Some(status)],
     responseTime |->
        [value |-> (responseTime + 5) \div 10,
         status |-> IF responseTime < 10000 THEN "good"
                    ELSE IF responseTime < 30000 THEN "warning" ELSE "critical"]]

\* The probe after the catch block has run.
statusFailed(p) ==
    [p EXCEPT !.pc = "done",
              !.websiteMonitoring = [status |-> "error", statusCode |-> None],
              !.responseTime = ErrorEntry("responseTime")]

InitStatus ==
    /\ objs = <<>>
    /\ jobs = [i \in Ids |-> 0]
    /\ triggers = {}
    /\ execs = <<>>
    /\ clock = 1
    /\ errors = {}
    /\ run = NoRun
    /\ check = NoCheck
    /\ probe \in [pc : {"start"}, url : {GoodUrl, BadUrl}, hops : {0}, response : {None},
                  websiteMonitoring : {InitialReport.websiteMonitoring},
                  responseTime : {InitialReport.responseTime}]

\* The probe starts the clock and the abort timer and calls fetch, which
\* rejects at once on a target that is no URL.
StartStatus ==
    /\ probe.pc = "start"
    /\ probe' = IF ParsesAsURL(probe.url) THEN [probe EXCEPT !.pc = "fetch"]
                ELSE statusFailed(probe)
    /\ UNCHANGED <<objs, jobs, triggers, execs, clock, errors, run, check>>

\* The server answers with a redirect that names a location: fetch follows
\* it, or rejects once it has followed MaxRedirects of them.
StatusRedirect ==
    /\ probe.pc = "fetch"
    /\ probe' = IF probe.hops < MaxRedirects THEN [probe EXCEPT !.hops = @ + 1]
                ELSE statusFailed(probe)
    /\ UNCHANGED <<objs, jobs, triggers, execs, clock, errors, run, check>>

\* fetch resolves with a response: any status code from 200 on, a
\* redirect code included when the answer names no location (and 300, 304
\* are never followed), after a span below the ten seconds of the abort.
StatusResponse ==
    /\ probe.pc = "fetch"
    /\ \E status \in {200, 204, 299, 300, 302, 304, 399, 400, 404, 500, 503, 599},
          responseTime \in {1500, 9994, 9995, 10000, 29994, 29995, 30000, 99990} :
          LET entries == statusEntries(status, responseTime)
          IN  probe' = [probe EXCEPT
                          !.pc = "done",
                          !.response = Some([status |-> status, responseTime |-> responseTime]),
                          !.websiteMonitoring = entries.websiteMonitoring,
                          !.responseTime = entries.responseTime]
    /\ UNCHANGED <<objs, jobs, triggers, execs, clock, errors, run, check>>

\* fetch rejects: the network fails, or the abort timer fires after ten
\* seconds without a response.
StatusFailure ==
    /\ probe.pc = "fetch"
    /\ probe' = statusFailed(probe)
    /\ UNCHANGED <<objs, jobs, triggers, execs, clock, errors, run, check>>

SpecStatus ==
    InitStatus /\ [][StartStatus \/ StatusRedirect \/ StatusResponse \/ StatusFailure]_vars

\* ------------------------------------------- vocabulary of the scheduler
Execs == 1..Len(execs)

Events(e) == {execs[e].log[i] : i \in 1..Len(execs[e].log)}

\* The cron tasks registered under id whose callback still starts runJob.
LiveTriggers(id) == {o \in triggers : objs[o].id = id /\ objs[o].isActive}

\* The events that end a dispatch: the mail went out, sendMail failed, or
\* creating the transport failed.
DispatchEnd == {"delivered", "send-failed", "transport-failed"}

DispatchFailure == {"send-failed", "transport-failed"}

\* The place of an event in one execution of a job.
Rank(ev) ==
    CASE ev \in {"monitor", "monitor-failed"} -> 1
      [] ev = "update" -> 2
      [] ev = "evaluate" -> 3
      [] ev = "dispatch" -> 4
      [] ev \in DispatchEnd -> 5
      [] ev \in {"return", "throw"} -> 6

\* ------------------------------------------------------------------- C1
\* C1: at most one execution per job id is in flight at any time, and no
\* cron trigger starts an execution while an earlier execution of the same
\* job is still in flight.
C1_OneInFlightPerJob ==
    /\ \A id \in Ids : Cardinality({e \in Execs : InFlight(e) /\ JobIdOf(e) = id}) <= 1
    /\ \A e \in Execs : execs[e].origin = "cron" => execs[e].during = {}

\* ------------------------------------------------------------------- C2
\* C2: when runJobNow starts an execution while a cron-started execution
\* of the same job is in flight, the two never both reach the dispatch of
\* the notification.
C2_SingleDispatchOnOverlap ==
    \A e1, e2 \in Execs :
        (/\ execs[e1].origin = "cron"
         /\ execs[e2].origin = "now"
         /\ execs[e1].obj = execs[e2].obj
         /\ e1 \in execs[e2].during)
        => ~("dispatch" \in Events(e1) /\ "dispatch" \in Events(e2))

\* ------------------------------------------------------------------- C3
\* C3: in every reachable state at most one cron task registered under an
\* id can start executions, and a task registered earlier under an id
\* never starts an execution after a task registered later under it did.
C3_OneLiveTriggerPerId ==
    /\ \A id \in Ids : Cardinality(LiveTriggers(id)) <= 1
    /\ \A e1, e2 \in Execs :
          (/\ execs[e1].origin = "cron" /\ execs[e2].origin = "cron"
           /\ JobIdOf(e1) = JobIdOf(e2)
           /\ e1 < e2)
          => execs[e1].obj <= execs[e2].obj

\* ------------------------------------------------------------------- C4
\* C4: when removeJob(id) returns, no cron task registered under id can
\* start an execution any more and getJob(id) finds no job.
C4_NoTriggerAfterRemove ==
    [][\A id \in Ids :
         RemoveJob(id) => (LiveTriggers(id)' = {} /\ getJob(id)' = None)]_vars

\* ------------------------------------------------------------------- C5
\* C5: removeJob(id) for an id that is not registered throws nothing and
\* changes no job object, no registry entry and no cron task; and a second
\* removeJob(id) right after a first leaves what the first left.
C5_RemoveJobIdempotent ==
    \A id \in Ids :
        LET once == removeJobOn(Registry, id)
            twice == removeJobOn([objs |-> once.objs, jobs |-> once.jobs,
                                  triggers |-> once.triggers], id)
        IN  /\ ~Has(id) => /\ ~once.throws
                           /\ once.objs = objs
                           /\ once.jobs = jobs
                           /\ once.triggers = triggers
            /\ ~once.throws
            /\ twice = once

\* A job was removed while another id stays registered: a further
\* removeJob of the removed id finds nothing.
C5_Witness ==
    \E id \in Ids, other \in Ids :
        /\ ~Has(id)
        /\ \E o \in 1..Len(objs) : objs[o].id = id /\ ~objs[o].isActive
        /\ Has(other)
        /\ triggers # {}

\* ------------------------------------------------------------------- C6
\* C6: when updateJobConfig(id, config) returns for a registered id, at
\* most one of the replaced and the new cron task can start executions, and
\* the only task under id that still can is the one of the new entry.
C6_OnlyNewTriggerAfterUpdate ==
    [][\A id \in Ids, config \in Configs :
         (Has(id) /\ UpdateJobConfig(id, config))
         => /\ Cardinality(LiveTriggers(id)' \cap {jobs[id], jobs'[id]}) <= 1
            /\ LiveTriggers(id)' \subseteq {jobs'[id]}]_vars

\* ------------------------------------------------------------------- C7
\* C7: runJobNow returns the not-found indication exactly for an id that
\* is absent or inactive, and every execution it starts otherwise ends by
\* returning the report of a full cycle.
C7_RunJobNowReturnsReport ==
    /\ \A id \in Ids :
          runJobNowBranch(id) = "null" <=> (getJob(id) = None \/ ~getJob(id)[1].isActive)
    /\ \A e \in Execs :
          (execs[e].origin = "now" /\ ~InFlight(e))
          => /\ execs[e].ret = "result"
             /\ execs[e].result # None
             /\ {"monitor", "update", "return"} \subseteq Events(e)

\* ------------------------------------------------------------------- C8
\* The events execution e has gone through are in order, each after the
\* ones it needs, and e has not returned with a dispatch still running.
C8_Ordered(e) ==
    LET log == execs[e].log
    IN  /\ \A i, j \in 1..Len(log) : i < j => Rank(log[i]) < Rank(log[j])
        /\ "update" \in Events(e) => "monitor" \in Events(e) /\ execs[e].result # None
        /\ "evaluate" \in Events(e) => "update" \in Events(e)
        /\ "dispatch" \in Events(e)
             => /\ "evaluate" \in Events(e)
                /\ AlertList(objs[execs[e].obj].config, execs[e].result[1]) # <<>>
        /\ execs[e].ret # "pending"
             => /\ Events(e) \cap {"return", "throw"} # {}
                /\ "dispatch" \in Events(e) => Events(e) \cap DispatchEnd # {}

\* The step in which an execution updates its job stores the report and
\* the instant of this run.
C8_UpdateStoresThisReport ==
    \A e \in Execs :
        ("update" \notin Events(e) /\ "update" \in Events(e)')
        => /\ objs'[execs[e].obj].lastResult = execs'[e].result
           /\ objs'[execs[e].obj].lastRun = Some(clock)

\* C8: the events of an execution occur in the order aggregator run,
\* lastRun/lastResult update, alert evaluation, dispatch, end of dispatch,
\* return; the update stores this run's report, the dispatch is the one the
\* rules ask for on this run's report, and an execution that has returned
\* has no dispatch still running.
C8_StepOrder ==
    /\ [](\A e \in Execs : C8_Ordered(e))
    /\ [][C8_UpdateStoresThisReport]_vars

\* An execution went through every step, the mail delivered.
C8_Witness ==
    \E e \in Execs :
        execs[e].log = <<"monitor", "update", "evaluate", "dispatch", "delivered", "return">>

\* ------------------------------------------------------------------- C9
\* An execution whose dispatch failed has returned its report.
C9_Returned(e) ==
    Events(e) \cap DispatchFailure # {}
    => /\ execs[e].ret = "result"
       /\ execs[e].result # None
       /\ ~InFlight(e)

\* The step in which a dispatch fails changes neither the registry nor the
\* cron tasks nor the job's isActive, and leaves lastRun and lastResult as
\* this run set them.
C9_FailureStep ==
    \A e \in Execs :
        (Events(e) \cap DispatchFailure = {} /\ Events(e)' \cap DispatchFailure # {})
        => LET o == execs[e].obj
           IN  /\ jobs' = jobs
               /\ triggers' = triggers
               /\ objs'[o].isActive = objs[o].isActive
               /\ IF "update" \in Events(e)
                  THEN objs' = objs
                  ELSE /\ objs'[o].lastResult = execs'[e].result
                       /\ objs'[o].lastRun = Some(clock)

\* C9: an execution whose dispatch failed (creating the transport or
\* sending) still returns its report; the failing step takes back neither
\* lastRun nor lastResult and leaves the registry and the job's isActive
\* as they were.
C9_DispatchFailureContained ==
    /\ [](\A e \in Execs : C9_Returned(e))
    /\ [][C9_FailureStep]_vars

\* Two executions of the job that is still the registered one returned
\* their reports, one after sendMail failed and one after creating the
\* transport failed.
C9_Witness ==
    \E e1, e2 \in Execs :
        /\ execs[e1].log = <<"monitor", "update", "evaluate", "dispatch",
                             "send-failed", "return">>
        /\ execs[e2].log = <<"monitor", "update", "evaluate", "dispatch",
                             "transport-failed", "return">>
        /\ execs[e1].ret = "result" /\ execs[e2].ret = "result"
        /\ execs[e1].obj = execs[e2].obj
        /\ jobs[JobIdOf(e1)] = execs[e1].obj
        /\ objs[execs[e1].obj].isActive
        /\ objs[execs[e1].obj].lastResult # None

\* ------------------------------------------------------------------ C10
\* C10: an aggregator run that throws in a cron-started execution lets no
\* exception out of the cron callback, and leaves the job registered,
\* active, scheduled and with the lastRun/lastResult it had.
C10_AggregatorFaultContained ==
    \A e \in Execs :
        (execs[e].origin = "cron" /\ "monitor-failed" \in Events(e))
        => /\ execs[e].ret # "throw"
           /\ execs[e].obj \in triggers

\* ------------------------------------------------------------------ C11
\* C11: an addJob(id, config) that throws for an unregistered id leaves id
\* unregistered; an updateJobConfig(id, config) that throws leaves the
\* previous job registered under id, active and with its cron task; and no
\* registered active job is ever without a cron task.
C11_InvalidJobRejected ==
    /\ [](\A id \in Ids : (Has(id) /\ objs[jobs[id]].isActive) => jobs[id] \in triggers)
    /\ [][\A id \in Ids, config \in Configs :
            /\ (/\ ~Has(id)
                /\ AddJob(id, config)
                /\ addJobOn(Registry, id, config).throws)
               => ~Has(id)'
            /\ (/\ Has(id)
                /\ UpdateJobConfig(id, config)
                /\ updateJobConfigOn(Registry, id, config).throws)
               => /\ jobs'[id] = jobs[id]
                  /\ objs'[jobs[id]].isActive
                  /\ jobs[id] \in triggers => jobs[id] \in triggers']_vars

\* ------------------------------------------------------------------ C12
\* The report holds category cat, with a declared status (for the ports, a
\* declared status for every port it lists).
C12_HasEntry(report, cat) ==
    /\ cat \in DOMAIN report
    /\ IF cat = "portMonitoring"
       THEN \A p \in DOMAIN report[cat] : report[cat][p] \in StatusesOf(cat)
       ELSE report[cat].status \in StatusesOf(cat)

\* C12: a report monitorWebsite returns holds every declared category,
\* each with a declared status, whatever probes failed; the categories of
\* a probe that ended in error hold its error entry.
C12_ReportComplete ==
    run.pc = "returned"
    => /\ \A cat \in Categories : C12_HasEntry(run.report, cat)
       /\ \A w \in Waits :
             ErrorOutcome(w, run.got[w])
             => \A cat \in Cats(w) :
                   cat \in DOMAIN run.report /\ run.report[cat] = ErrorEntry(cat)

\* A report was returned after the availability, TLS, domain and ping
\* probes all failed.
C12_Witness ==
    /\ run.pc = "returned"
    /\ run.got["status"] = "fail"
    /\ run.got["ssl"] = "silent"
    /\ run.got["whois"] = "fail"
    /\ run.got["ping"] = "fail"
    /\ run.report["pingMonitoring"].status = "error"

\* ------------------------------------------------------------------ C13
\* C13: a run whose target does not parse as a URL never rejects; when it
\* has ended it has returned a report in which every probe that needs the
\* hostname left its error entry, and the ping probe has run.
C13_UnparseableTargetReported ==
    ~ParsesAsURL(run.url)
    => /\ run.pc # "thrown"
       /\ Settled
          => /\ run.pc = "returned"
             /\ \A cat \in {"dnsMonitoring", "sslMonitoring", "domainExpiration",
                             "pingMonitoring"} :
                   run.report[cat] = ErrorEntry(cat)
             /\ run.got["ping"] # "-"

\* ------------------------------------------------------------------ C14
\* A step of the run leaves every category the current probe does not own
\* as it was.
C14_Frame ==
    Running
    => \A cat \in DOMAIN run.report \ Cats(run.pc) :
          cat \in DOMAIN run'.report /\ run'.report[cat] = run.report[cat]

\* The entries a probe left are the ones its own answer gives, whatever
\* the other probes got.
C14_OwnAnswerOnly ==
    \A w \in Waits :
        (run.got[w] # "-" /\ After(w, run.got[w], run.keyword) \notin {"whois", "body"}
         /\ run.pc # "thrown")
        => \A cat \in Cats(w) :
              run.report[cat] = Apply(InitialReport, w, run.got[w])[cat]

\* A run that has ended has run every probe: the six of every run, and
\* the keyword probe when a keyword was given.
C14_AllProbesRan ==
    Settled
    => /\ \A w \in {"status", "dns", "ssl", "rdap", "ports", "ping"} : run.got[w] # "-"
       /\ run.keyword # None => run.got["keyword"] # "-"

\* C14: each probe writes only its own categories and leaves the others
\* unchanged, the entries it leaves depend on its own answer alone, and the
\* failure of one probe keeps no other probe from running.
C14_ProbeIsolation ==
    /\ [](C14_OwnAnswerOnly /\ C14_AllProbesRan)
    /\ [][C14_Frame]_vars

\* ------------------------------------------------------------------ C15
\* C15: every run of monitorWebsite eventually ends, whatever the
\* collaborators do, one that never answers included.
C15_EveryRunEnds == <>Settled

\* ------------------------------------------------------------------ C16
\* The days left are present and at or below the minimum configured for
\* them.
C16_AtOrBelow(days, min) == days # None /\ min # None /\ days[1] <= min[1]

\* C16: for SSL and for the domain alike, whenever the report carries the
\* days left (0 and negative numbers included), a minimum is configured and
\* the days left are at or below it, the alert list built holds the expiry
\* alert of that rule.
C16_ExpiryAlertAtOrBelowMinimum ==
    Evaluated
    => /\ C16_AtOrBelow(check.result.sslDays, Threshold(check.config, "sslExpiryDays"))
          => "sslExpiry" \in Rules(check.alerts[1])
       /\ C16_AtOrBelow(check.result.domainDays, Threshold(check.config, "domainExpiryDays"))
          => "domainExpiry" \in Rules(check.alerts[1])

\* ------------------------------------------------------------------ C17
\* C17: the alert list built holds a response-time alert exactly when a
\* maximum latency is configured (0 included) and the report's latency is
\* above it.
C17_LatencyAlertIffAboveMaximum ==
    Evaluated
    => LET max == Threshold(check.config, "responseTime")
       IN  "responseTime" \in Rules(check.alerts[1])
           <=> (max # None /\ check.result.responseTime > max[1])

\* ------------------------------------------------------------------ C18
\* C18: the alert list built holds the availability alert exactly when the
\* availability status is not online, the SSL-expired alert exactly when
\* the SSL status is expired and the domain-expired alert exactly when the
\* domain status is expired, with or without thresholds and whatever the
\* other rules did; and the alerts stand in the order latency, SSL
\* threshold, domain threshold, availability, SSL expired, domain expired.
C18_StatusRulesIndependent ==
    Evaluated
    => LET list == check.alerts[1]
       IN  /\ "websiteStatus" \in Rules(list) <=> check.result.status # "online"
           /\ "sslExpired" \in Rules(list) <=> check.result.sslStatus = "expired"
           /\ "domainExpired" \in Rules(list) <=> check.result.domainStatus = "expired"
           /\ \A i \in 1..Len(list) :
                 list[i].rule = "websiteStatus" => list[i].text = check.result.status
           /\ \A i, j \in 1..Len(list) :
                 i < j => RuleOrder(list[i].rule) < RuleOrder(list[j].rule)

\* The three status rules fired with no thresholds configured.
C18_Witness ==
    /\ Evaluated
    /\ check.config.alertThresholds = None
    /\ Rules(check.alerts[1]) = {"websiteStatus", "sslExpired", "domainExpired"}
    /\ Len(check.alerts[1]) = 3

\* ------------------------------------------------------------------ C19
\* The number of times execution e has called sendAlertEmail.
C19_Dispatches(e) ==
    Cardinality({i \in 1..Len(execs[e].log) : execs[e].log[i] = "dispatch"})

\* C19: an execution dispatches the notification exactly when its
\* aggregator run returned a report, the job's notifications are enabled
\* and the alert list of that report under the job's config is not empty;
\* and it dispatches at most once.
C19_DispatchIffAlerts ==
    \A e \in Execs :
        LET config == objs[execs[e].obj].config
        IN  /\ "dispatch" \in Events(e)
               <=> /\ execs[e].result # None
                   /\ config.emailEnabled
                   /\ AlertList(config, execs[e].result[1]) # <<>>
            /\ C19_Dispatches(e) <= 1

\* Two finished executions of one job with notifications enabled: the one
\* with alerts dispatched once, the one with an empty list did not.
C19_Witness ==
    \E e1, e2 \in Execs :
        /\ execs[e1].obj = execs[e2].obj
        /\ objs[execs[e1].obj].config.emailEnabled
        /\ ~InFlight(e1) /\ ~InFlight(e2)
        /\ execs[e1].result = Some(RepDown) /\ C19_Dispatches(e1) = 1
        /\ execs[e2].result = Some(RepHealthy) /\ C19_Dispatches(e2) = 0
        /\ "evaluate" \in Events(e2)

\* ------------------------------------------------------------------ C20
\* A run of checkAlerts leaves the config (the thresholds in it) and the
\* report as they were, and builds the list the run before it built.
C20_Step ==
    /\ check'.config = check.config
    /\ check'.result = check.result
    /\ Evaluated => check'.alerts = check.alerts

C21_Report ==
    [status |-> "online", responseTime |-> 150,
     sslStatus |-> "valid", sslDays |-> Some(200),
     domainStatus |-> "expiring_soon", domainDays |-> Some(10)]

\* Only the domain threshold is set, to 30 days.
C21_Thresholds ==
    Some([responseTime |-> None, sslExpiryDays |-> None, domainExpiryDays |-> Some(30)])

C21_Case ==
    /\ Evaluated
    /\ check.result = C21_Report
    /\ check.config.alertThresholds = C21_Thresholds

\* C21: evaluating the scenario's report with only the domain threshold
\* set to 30 days builds exactly one alert, the domain-expiry alert with
\* its 10 days.
C21_ScenarioOneDomainAlert ==
    C21_Case => check.alerts[1] = <<Alert("domainExpiry", 10, "Domain expires in")>>

\* The scenario was evaluated and its one alert sent.
C21_Witness == C21_Case /\ check.sent = 1

\* ------------------------------------------------------------------ C22
\* The classification the claim states, written on its own.
C22_StatusOf(d) ==
    CASE d > 30 -> "valid"
      [] d >= 1 /\ d <= 30 -> "expiring_soon"
      [] d <= 0 -> "expired"

C22_Written == probe.pc = "written" /\ probe.entry[1].status # "error"

\* C22: every non-error entry of the TLS and of the domain probe carries
\* the days left d and the status that d alone determines: valid above 30,
\* expiring_soon from 1 to 30, expired at 0 and below.
C22_StatusFromDays ==
    C22_Written =>
        /\ DOMAIN probe.entry[1] = {"status", "days"}
        /\ probe.entry[1].days = daysUntilExpiry(probe.left[1])
        /\ probe.entry[1].status = C22_StatusOf(probe.entry[1].days)

\* The domain probe wrote expiring_soon for exactly 30 days left.
C22_Witness ==
    /\ C22_Written
    /\ probe.kind = "domain"
    /\ probe.entry[1] = [status |-> "expiring_soon", days |-> 30]

\* ------------------------------------------------------------------ C23
C23_Instant == Some(Midnight(<<2025, 7, 20>>, 0))

\* C23: a call of the date normalizer on "20-Jul-2025" or on
\* "2025-07-20T00:00:00.000Z GMT" yields the instant 2025-07-20T00:00:00Z,
\* and the normalizer reports failure only when no stage gives an instant.
C23_BothInputsSameInstant ==
    probe.pc = "parsed" =>
        /\ probe.s \in {DayMonthYear, IsoWithGMT} => probe.result[1].instant = C23_Instant
        /\ probe.result[1].instant = None <=> probe.result[1].stage = "none"

\* ------------------------------------------------------------------ C24
\* The whois stage has ended on a text.
C24_Searched == probe.pc = "done" /\ probe.whoisText # None

C24_Text == probe.whoisText[1]

\* The lines of a text that a pattern matches.
C24_Lines(text, k) == {i \in 1..Len(text) : patterns[k] \in PatternsOf(text[i].label)}

\* The first pattern of the list that matches a line of the text; 0 when
\* none does.
C24_FirstPattern(text) ==
    IF \A k \in 1..Len(patterns) : C24_Lines(text, k) = {} THEN 0
    ELSE CHOOSE k \in 1..Len(patterns) :
            /\ C24_Lines(text, k) # {}
            /\ \A j \in 1..(k - 1) : C24_Lines(text, j) = {}

\* The structured answer had no expiry event and the text holds the line
\* "Registry Expiry Date: 2026-01-01T00:00:00Z".
C24_Scenario ==
    /\ C24_Searched
    /\ probe.payload # None
    /\ rdapCandidate(probe.payload[1]) = None
    /\ \E i \in 1..Len(C24_Text) : C24_Text[i] = RegistryLine

C24_Resolved2026 ==
    /\ probe.entry[1].status # "error"
    /\ probe.entry[1].expiryDate = Midnight(<<2026, 1, 1>>, 0)

\* No line before the scenario's line carries its label.
C24_RegistryLineFirst ==
    \E i \in 1..Len(C24_Text) :
        /\ C24_Text[i] = RegistryLine
        /\ \A j \in 1..(i - 1) : C24_Text[j].label # RegistryLine.label

C25_RdapEnded == probe.fetch \in {"reject", "notok"} \/ probe.payload # None

\* The events of the payload whose action speaks of expiry.
C25_ExpiryEvents ==
    LET events == probe.payload[1].events[1]
    IN  {i \in 1..Len(events) : IsExpiryAction(events[i].eventAction)}

\* The reasons for which the structured stage yields no candidate:
\* endpoint unreachable, non-success response, unreadable payload, no
\* expiry event, or an expiry event without a date found first.
C25_NoCandidate ==
    \/ probe.fetch \in {"reject", "notok"}
    \/ /\ probe.payload # None
       /\ \/ ~probe.payload[1].readable
          \/ probe.payload[1].events = None
          \/ C25_ExpiryEvents = {}
          \/ \E i \in C25_ExpiryEvents :
                /\ \A j \in C25_ExpiryEvents : i <= j
                /\ probe.payload[1].events[1][i].eventDate = None

\* The date of the first expiry event of the payload.
C25_Candidate ==
    LET events == probe.payload[1].events[1]
        i == CHOOSE k \in C25_ExpiryEvents : \A j \in C25_ExpiryEvents : k <= j
    IN  events[i].eventDate

\* C25: the whois tool is never run before the structured stage has
\* ended; once that stage has ended without a candidate the tool has been
\* run exactly once, and once it has ended with a candidate the tool is
\* never run and that candidate is the string parsed.
C25_WhoisOnlyAsFallback ==
    /\ probe.pc # "none" /\ ~C25_RdapEnded => probe.whoisCalls = 0
    /\ probe.pc # "none" /\ C25_RdapEnded /\ C25_NoCandidate =>
          /\ probe.whoisCalls = 1
          /\ probe.pc = "whois" \/ (probe.pc = "done" /\ probe.entry # None)
    /\ probe.pc # "none" /\ C25_RdapEnded /\ ~C25_NoCandidate =>
          /\ probe.whoisCalls = 0
          /\ probe.pc = "done"
          /\ probe.parsed = C25_Candidate

\* An expiry event without a date came first in the payload, and the
\* whois text then gave the expiry.
C25_Witness ==
    /\ probe.pc = "done"
    /\ probe.payload # None
    /\ probe.payload[1].events = Some(<<Event("Expiry", None), Event("expiration", Some(Iso2026))>>)
    /\ probe.whoisCalls = 1
    /\ probe.whoisText = Some(<<RegistryLine>>)
    /\ probe.entry[1].status = "valid"

\* ------------------------------------------------------------------ C26
C26_Failed == probe.pc = "done" /\ probe.entry[1].status = "error"

\* The first lines of a text, as many as the sample holds.
C26_Start(text) ==
    [i \in 1..(IF Len(text) < SampleLength THEN Len(text) ELSE SampleLength) |-> text[i]]

\* C26: a resolution that ends without a valid date ends in an error
\* entry without expiry date and without days; when the whois text gave no
\* candidate the error holds the start of that text, cut at the sample
\* length, and when a candidate was found but not parsed the error holds
\* the candidate.
C26_FailureCarriesRawText ==
    /\ probe.pc = "done" =>
          /\ probe.entry # None
          /\ probe.entry[1].status # "error" =>
                DOMAIN probe.entry[1] = {"status", "expiryDate", "days"}
    /\ C26_Failed =>
          /\ DOMAIN probe.entry[1] = {"status", "error"}
          /\ probe.whoisText # None /\ probe.parsed = None =>
                /\ probe.entry[1].error.message = "Could not find expiry date in RDAP or WHOIS output"
                /\ probe.entry[1].error.raw = C26_Start(probe.whoisText[1])
          /\ probe.parsed # None =>
                /\ probe.entry[1].error.message = "Found expiry string but could not parse it"
                /\ probe.entry[1].error.raw = probe.parsed[1]

\* A text of three lines without any expiry ended in the error entry that
\* holds its first two lines.
C26_Witness ==
    /\ C26_Failed
    /\ probe.whoisText =
          Some(<<Line("Domain Name", <<"example.com">>), Line("Domain Name", <<"example.com">>),
                 Line("Domain Name", <<"example.com">>)>>)
    /\ Len(probe.entry[1].error.raw) = SampleLength

\* ------------------------------------------------------------------ C27
\* The status the claim gives for a connection outcome.
C27_StatusFor(answer) ==
    CASE answer = "refuse" -> "closed"
      [] answer = "silent" -> "timeout"
      [] OTHER -> "open"

\* C27: for a parseable target the scan ends with one status for each of
\* the fourteen ports and for no other; the status of a port is open with
\* the connect latency, closed or timeout as that port's own connection
\* was accepted, refused or left unanswered, whatever the other ports did.
C27_OneStatusPerPort ==
    /\ probe.pc \in {"scan", "done"} =>
          /\ ParsesAsURL(probe.url)
          /\ DOMAIN probe.portMonitoring = {Ports[i] : i \in 1..(probe.next - 1)}
          /\ \A port \in DOMAIN probe.portMonitoring :
                /\ probe.portMonitoring[port].status = C27_StatusFor(probe.answers[port])
                /\ probe.portMonitoring[port].status = "open" =>
                      probe.portMonitoring[port].responseTime = probe.answers[port][1]
    /\ probe.pc = "done" =>
          DOMAIN probe.portMonitoring = {21, 22, 23, 25, 53, 80, 110, 143, 443, 993, 995, 3306, 5432, 8080}

\* Port 23 refused, port 80 accepted and port 443 stayed silent.
C27_Witness ==
    /\ probe.pc = "done"
    /\ probe.portMonitoring[23] = [status |-> "closed"]
    /\ probe.portMonitoring[80].status = "open"
    /\ probe.portMonitoring[443] = [status |-> "timeout"]

\* ------------------------------------------------------------------ C28
C28_Done == probe.pc = "done"

\* The record set the report shows for an answered lookup: the exchange
\* hosts of the MX records, the strings of the TXT records (two records in
\* the answers here) in one list, the A and NS answers as they are.
C28_Shown(type, records) ==
    CASE type = "MX" -> [i \in 1..Len(records) |-> records[i].exchange]
      [] type = "TXT" -> IF Len(records) = 2 THEN records[1] \o records[2] ELSE <<>>
      [] OTHER -> records

\* C28: for a parseable hostname the DNS entry is resolved and holds the
\* four record sets, whichever lookups failed; the set of a failed lookup
\* is empty and the set of every other lookup is what the resolver
\* answered for it; the entry is error only when the hostname cannot be
\* derived.
C28_LookupsIndependent ==
    C28_Done =>
        /\ probe.dnsMonitoring[1].status = "error" <=> ~ParsesAsURL(probe.url)
        /\ ParsesAsURL(probe.url) =>
              /\ probe.dnsMonitoring[1].status = "resolved"
              /\ DOMAIN probe.dnsMonitoring[1].records = {"A", "MX", "TXT", "NS"}
              /\ \A type \in RecordTypes :
                    probe.dnsMonitoring[1].records[type] =
                        IF probe.got[type].ok
                        THEN C28_Shown(type, probe.got[type].records)
                        ELSE <<>>

\* The A lookup failed and the other three were answered.
C28_Witness ==
    /\ C28_Done
    /\ ParsesAsURL(probe.url)
    /\ ~probe.got["A"].ok
    /\ \A type \in RecordTypes \ {"A"} :
          probe.got[type].ok /\ probe.dnsMonitoring[1].records[type] # <<>>
    /\ probe.dnsMonitoring[1].records["A"] = <<>>

\* ------------------------------------------------------------------ C29
\* C29: the ping entry is success with the round trip the tool printed,
\* with or without a fraction, whenever the output holds a round-trip
\* time; it is failed whenever the tool ran and its output holds none; it
\* is error only when the probe could not be run.
C29_SuccessWheneverTimePrinted ==
    probe.pc = "done" =>
        /\ probe.exit = "replied" =>
              probe.pingMonitoring[1] =
                  [status |-> "success", responseTime |-> parseFloat(probe.time)]
        /\ probe.exit \in {"noreply", "unknownhost"} => probe.pingMonitoring[1].status = "failed"
        /\ probe.pingMonitoring[1].status = "error" =>
              ~ParsesAsURL(probe.url) \/ probe.exit = "notstarted"

\* ------------------------------------------------------------------ C30
\* The keyword stands at position p of the body, letter for letter.
C30_At(keyword, body, p) ==
    /\ p + Len(keyword) - 1 <= Len(body)
    /\ \A i \in 1..Len(keyword) : Lower(body[p + i - 1]) = Lower(keyword[i])

\* The occurrences of the keyword in the body from position p on, counted
\* from left to right without overlap.
RECURSIVE C30_Occurrences(_, _, _)
C30_Occurrences(keyword, body, p) ==
    IF p > Len(body) THEN 0
    ELSE IF C30_At(keyword, body, p)
    THEN 1 + C30_Occurrences(keyword, body, p + Len(keyword))
    ELSE C30_Occurrences(keyword, body, p + 1)

\* C30: the keyword entry is there exactly when a keyword was supplied,
\* and for every keyword and every body that was read the entry counts
\* the literal occurrences of the keyword in the body without regard to
\* case, with status found for one or more and not_found for none.
C30_CountsLiteralOccurrences ==
    probe.pc = "done" =>
        /\ probe.keywordMonitoring # None <=> probe.keyword # None /\ probe.keyword[1] # <<>>
        /\ probe.content # None =>
              LET n == C30_Occurrences(probe.keyword[1], probe.content[1], 1)
              IN  /\ probe.keywordMonitoring[1].status = IF n >= 1 THEN "found" ELSE "not_found"
                  /\ probe.keywordMonitoring[1].occurrences = n

\* ------------------------------------------------------------------ C31
\* fetch resolved with a response and the probe has written its entries.
C31_Received == probe.pc = "done" /\ probe.response # None

\* C31: for every HTTP response the availability probe receives, the entry
\* carries the response's status code, and the status is online when the
\* code is in 200..399 and offline otherwise; the status is error only when
\* no HTTP response was obtained.
C31_OnlineFor2xxAnd3xx ==
    /\ C31_Received =>
         /\ probe.websiteMonitoring.statusCode = Some(probe.response[1].status)
         /\ probe.websiteMonitoring.status =
              IF probe.response[1].status >= 200 /\ probe.response[1].status <= 399
              THEN "online" ELSE "offline"
    /\ probe.pc = "done" /\ probe.websiteMonitoring.status = "error" => probe.response = None

\* ------------------------------------------------------------------ C32
\* C32: in every report the latency bucket agrees with the reported value:
\* good implies value < 1000, warning implies 1000 <= value < 3000, and
\* critical implies value >= 3000 or a failed availability probe (status
\* error, value 0).
C32_BucketAgreesWithValue ==
    probe.pc = "done" =>
        LET value == probe.responseTime.value
            bucket == probe.responseTime.status
        IN  /\ bucket = "good" => value < 1000
            /\ bucket = "warning" => value >= 1000 /\ value < 3000
            /\ bucket = "critical" =>
                 \/ value >= 3000
                 \/ probe.websiteMonitoring.status = "error" /\ value = 0

\* ------------------------------------------------------------------ C33
\* A step of a run seen from its caller's cancellation: once cancelled, no
\* wait on a collaborator is begun and none is left in flight, and the
\* registry is as it was.
C33_Step ==
    /\ run.cancelled /\ run'.cancelled => ~(run.peer = "-" /\ run'.peer # "-")
    /\ run'.cancelled => run'.peer = "-"
    /\ Registry' = Registry

\* C33: an ad-hoc run can be cancelled by its caller while in flight: after
\* cancellation no further probe I/O of the run is started and in-flight
\* probe I/O is aborted; and an ad-hoc run, cancelled or not, never adds,
\* removes or modifies an entry of the job registry.
C33_CancellationPropagates == [][C33_Step]_vars

\* ------------------------------------------------------------------ C34
\* The job registered under id leaves the registry, is deactivated or has
\* its registry entry replaced in this step.
C34_Lost(id) ==
    /\ Has(id)
    /\ \/ jobs'[id] # jobs[id]
       \/ objs[jobs[id]].isActive /\ ~objs'[jobs[id]].isActive

\* The step is a removeJob or an updateJobConfig on id.
C34_Explicit(id) == RemoveJob(id) \/ \E config \in Configs : UpdateJobConfig(id, config)

\* C34: a registered job leaves the registry, or stops being active, only
\* through an explicit removeJob or updateJobConfig on its id; executions,
\* runJobNow, notification failures, reads and operations on other ids
\* never remove it, deactivate it or replace its registry entry.
C34_RemovalIsExplicit == [][\A id \in Ids : C34_Lost(id) => C34_Explicit(id)]_vars

\* ------------------------------------------------------------------ C35
\* A job object has every field addJob gives it, stored under key id.
C35_Constructed(job, id) ==
    /\ DOMAIN job = {"id", "config", "isActive", "lastRun", "lastResult"}
    /\ job.id = id
    /\ job.config \in Configs
    /\ job.isActive \in BOOLEAN

\* What the two reads return in this state is fully constructed.
C35_ReadsConstructed ==
    /\ \A id \in Ids : getJob(id) # None => C35_Constructed(getJob(id)[1], id)
    /\ \A job \in getAllJobs : \E id \in Ids : getJob(id) = Some(job) /\ C35_Constructed(job, id)

\* C35: getJob and getAllJobs never change the registry, and under every
\* interleaving with add, remove, update and execute operations every
\* entry they return is fully constructed: its id is the key it is stored
\* under, it has a config and a defined isActive flag.
C35_ReadsSafe ==
    /\ []C35_ReadsConstructed
    /\ [][(GetAllJobs \/ \E id \in Ids : GetJob(id)) => Registry' = Registry]_vars

\* Both ids are registered and an execution of a registered job is in
\* flight.
C35_Witness ==
    /\ Cardinality(getAllJobs) = 2
    /\ \E e \in Execs : InFlight(e) /\ Has(JobIdOf(e))

\* ------------------------------------------------------------------ C36
\* C36: after any sequence of addJob, removeJob, updateJobConfig, runJobNow
\* and trigger firings, every job stored in the registry has isActive =
\* true, so getJobStatus(id).isRunning is true exactly when id is
\* registered.
C36_StoredJobsActive ==
    /\ \A job \in getAllJobs : job.isActive
    /\ \A id \in Ids :
         /\ getJob(id) # None => getJob(id)[1].isActive
         /\ getJobStatus(id).isRunning = Has(id)

\* A job has been deactivated (by a removal or an update) and an id is
\* registered, with an execution on record.
C36_Witness ==
    /\ \E o \in 1..Len(objs) : ~objs[o].isActive
    /\ \E id \in Ids : Has(id) /\ getJobStatus(id).isRunning
    /\ execs # <<>>

\* ------------------------------------------------------------------ C37
\* The executions of job object o whose aggregator run has completed;
\* executions are numbered in the order they started.
C37_Completed(o) == {e \in Execs : execs[e].obj = o /\ execs[e].result # None}

\* The stored report of o is that of the latest started completed execution.
C37_LatestStartedStored(o) ==
    C37_Completed(o) # {} =>
        LET latest == CHOOSE e \in C37_Completed(o) : \A f \in C37_Completed(o) : f <= e
        IN  objs[o].lastResult = execs[latest].result

\* lastRun of o does not go back in this step.
C37_LastRunForward(o) ==
    objs[o].lastRun # None => objs'[o].lastRun # None /\ objs'[o].lastRun[1] >= objs[o].lastRun[1]

\* C37: after any number of executions of a job, overlapping ones (cron
\* trigger and runJobNow) included, the entry's lastResult is the report of
\* the most recently started execution among those that have completed: a
\* run that started earlier but finishes later never overwrites the report
\* of a run that started after it; and lastRun never goes back.
C37_LatestStartedWins ==
    /\ [](\A o \in 1..Len(objs) : C37_LatestStartedStored(o))
    /\ [][\A o \in 1..Len(objs) : C37_LastRunForward(o)]_vars

\* ------------------------------------------------------------------ C38
\* removeJob has returned for the job of execution e: its job object is
\* deactivated and its id is absent from the registry.
C38_Removed(e) ==
    /\ ~objs[execs[e].obj].isActive
    /\ ~Has(JobIdOf(e))

\* Execution e dispatches a notification in this step.
C38_Dispatches(e) == "dispatch" \in Events(e)' \ Events(e)

\* Execution e leaves what the reads return as it was.
C38_ReadsUntouched(e) ==
    execs'[e] # execs[e] => jobs' = jobs /\ getAllJobs' = getAllJobs

\* C38: once removeJob(id) has returned, no alert notification is
\* dispatched for that job, and an execution of it that was in flight at
\* removal time neither re-inserts the job into the registry nor changes
\* any entry returned by getJob or getAllJobs.
C38_NoDispatchAfterRemove ==
    [][\A e \in Execs : C38_Removed(e) => ~C38_Dispatches(e) /\ C38_ReadsUntouched(e)]_vars

\* ------------------------------------------------------------------ C39
\* What an updateJobConfig(id, config) step leaves behind.
C39_Update(id, config) ==
    IF Has(id)
    THEN /\ getJob(id)' = Some(NewJob(id, config))
         /\ \A other \in Ids \ {id} : getJob(other)' = getJob(other)
    ELSE UNCHANGED <<objs, jobs, triggers, errors>>

\* An execution whose job object is not the registry entry of its id
\* stores its report in this step, and the entry stays as it is.
C39_OldRunKeepsOut(e) ==
    /\ execs[e].result = None /\ execs'[e].result # None
    /\ Has(JobIdOf(e)) /\ jobs[JobIdOf(e)] # execs[e].obj
    => getJob(JobIdOf(e))' = getJob(JobIdOf(e))

\* C39: updateJobConfig(id, config) for an id that is not in the registry
\* is a pure no-op: it adds no entry, registers no trigger and changes no
\* other job; for a registered id the resulting entry has the new config,
\* isActive = true and no lastRun or lastResult, and an execution of the
\* old job still in flight never writes its report into the new entry.
C39_UpdateReplacesOrNothing ==
    [][/\ \A id \in Ids, config \in Configs :
             UpdateJobConfig(id, config) => C39_Update(id, config)
       /\ \A e \in Execs : C39_OldRunKeepsOut(e)]_vars

\* The job of id was updated with an execution in flight, which has since
\* stored its report in the old job object; the new entry has none.
C39_Witness ==
    \E id \in Ids, e \in Execs :
        /\ Has(id) /\ JobIdOf(e) = id /\ jobs[id] # execs[e].obj
        /\ ~objs[execs[e].obj].isActive
        /\ objs[execs[e].obj].lastResult # None
        /\ objs[jobs[id]].lastResult = None

\* ------------------------------------------------------------------ C40
\* lastRun or lastResult of job object o is written in this step.
C40_Written(o) ==
    objs'[o].lastRun # objs[o].lastRun \/ objs'[o].lastResult # objs[o].lastResult

\* Execution e, of job object o, gets its report in this step and stores
\* it with the instant, the alert check not yet begun.
C40_StoredBy(e, o) ==
    /\ execs[e].obj = o
    /\ execs[e].result = None /\ execs'[e].result # None
    /\ Events(e) \cap {"update", "evaluate"} = {}
    /\ "update" \in Events(e)'
    /\ objs'[o].lastResult = execs'[e].result
    /\ objs'[o].lastRun = Some(clock)

\* C40: on every job object lastRun is set if and only if lastResult is
\* set; both are written only by an execution whose aggregator run
\* completed, together and before the alert check, and an execution whose
\* aggregator run throws leaves both unchanged.
C40_LastRunWithLastResult ==
    /\ [](\A o \in 1..Len(objs) : (objs[o].lastRun = None) <=> (objs[o].lastResult = None))
    /\ [][/\ \A o \in 1..Len(objs) : C40_Written(o) => \E e \in Execs : C40_StoredBy(e, o)
          /\ \A e \in Execs :
               "monitor-failed" \in Events(e)' \ Events(e)
               => objs'[execs[e].obj] = objs[execs[e].obj]]_vars

\* An execution stored its report and instant and went on to the alert
\* check, and another execution's aggregator run has thrown or is awaited.
C40_Witness ==
    \E e \in Execs :
        /\ "evaluate" \in Events(e)
        /\ objs[execs[e].obj].lastRun # None
        /\ objs[execs[e].obj].lastResult = execs[e].result
        /\ \E f \in Execs \ {e} : execs[f].result = None
====
